---- MODULE Spec2Model ----
\* FilmSet: the multi-stage analysis pipeline of App.tsx, the visual batch
\* runner and the shot blueprint generator of services/geminiService.ts.
EXTENDS Integers, Sequences, FiniteSets, TLC

VARIABLES
    status,              \* App: useState<AnalysisStatus>
    error,               \* App: useState<string | null>
    activeTool,          \* App: the tab shown
    currentProject,      \* App: useState<Project | null>
    isVisualsModalOpen,  \* App: the visuals-choice modal
    scriptToAnalyze,     \* App: the text handed from handleAnalysis to executeAnalysis
    runs,                \* the async chains started by executeAnalysis / generateAllVisuals
    nextRun,             \* id of the next chain
    isLoading,           \* ShotIdeaStudio: useState<boolean>
    shotError,           \* ShotIdeaStudio: useState<string | null>
    gens,                \* the async chains started by handleGenerate
    nextGen,             \* id of the next one
    db,                  \* the project store: the record kept under each id
    nextId,              \* the id the store gives to the next new record
    exported,            \* the file written by the last export
    reading,             \* the files a FileReader is reading
    loads,               \* ids whose getProject has been asked and not yet answered
    timer,               \* debounceTimeoutRef: the project the pending auto-save will save
    deletes,             \* the calls of handleDeleteProject under way
    deleted,             \* the ids whose handleDeleteProject has completed
    video,               \* the call of generateVideo
    board                \* the call of generateStoryboardFromShots

shotVars == <<isLoading, shotError, gens, nextGen>>
storeVars == <<db, nextId, exported, reading, loads>>
restVars == <<deletes, deleted, video, board>>

vars == <<status, error, activeTool, currentProject, isVisualsModalOpen,
          scriptToAnalyze, runs, nextRun, isLoading, shotError, gens, nextGen,
          db, nextId, exported, reading, loads, timer, deletes, deleted, video, board>>

-----------------------------------------------------------------------------
\* Bounds of the model.

MaxRuns == 1          \* analysis runs started in one behaviour of the full pipeline
MaxOverlap == 2       \* analysis runs started in one behaviour of the overlap model
MaxGens == 1          \* shot generations started in one behaviour
MaxShots == 2         \* shots of a shot-list response
MaxStudioGens == 2    \* shot generations started when the studio is remounted
MaxStudioShots == 1   \* shots of a shot-list response when generations overlap
MaxProfiles == 3      \* character profiles of a pitch deck handed to the batch runner
MaxTitles == 4        \* comparable titles of a pitch deck handed to the batch runner
MaxSaved == 2         \* records the project store is asked to create
MaxReading == 1       \* files being read at one time
MaxProjectRuns == 1   \* analysis runs started in one behaviour of the project model
MaxPolls == 3         \* polls of a video operation that are counted
MaxPanels == 3        \* shots handed to generateStoryboardFromShots

\* Program constants.
MaxPortraits == 2     \* .slice(0, 2) of the on-screen profiles
MaxPosters == 3       \* comparable_titles.slice(0, 3)
NumStyleStills == 3   \* numberOfImages: 3 of the style-stills request
PollInterval == 10000 \* setTimeout(resolve, 10000) of the polling loop

RunIds == 1..(IF MaxRuns > MaxOverlap THEN MaxRuns ELSE MaxOverlap)
GenIds == 1..(IF MaxGens > MaxStudioGens THEN MaxGens ELSE MaxStudioGens)

-----------------------------------------------------------------------------
\* Values.

Null == [kind |-> "null"]
\* The value of a field that an object does not have.
Undefined == [kind |-> "undefined"]

\* The auto-save effect, which runs after every render that changed
\* currentProject: it clears the pending timer and, when the project has an
\* id, starts a new one that will save the project as it is now.
HasId(p) == p # Null /\ p.id # Undefined
Autosave ==
    timer' = IF timer = Null /\ ~HasId(currentProject') THEN Null
             ELSE IF currentProject' = currentProject THEN timer
             ELSE IF HasId(currentProject') THEN currentProject'
             ELSE Null

\* A script is a string of characters; the texts a user submits in the model
\* are the empty one, a blank one and one with content.
Scripts == {<<>>, <<" ">>, <<"x">>}

RECURSIVE TrimStart(_)
TrimStart(s) == IF s # <<>> /\ Head(s) = " " THEN TrimStart(Tail(s)) ELSE s

RECURSIVE TrimEnd(_)
TrimEnd(s) ==
    IF s # <<>> /\ s[Len(s)] = " " THEN TrimEnd(SubSeq(s, 1, Len(s) - 1)) ELSE s

\* String.prototype.trim
Trim(s) == TrimEnd(TrimStart(s))

\* A thrown value: an Error whose message holds some of the substrings the
\* code looks for, or a value that is not an Error.
Err(m) == [isError |-> TRUE, marks |-> m]
NonErr(m) == [isError |-> FALSE, marks |-> m]
\* What an image request throws in the model, and what a text request throws.
ImageThrown == {Err({}), Err({"429"}), Err({"RESOURCE_EXHAUSTED"}), NonErr({"429"})}
TextThrown == {Err({}), Err({"429"}), Err({"503"}), NonErr({})}

\* isRateLimitError of geminiService
isRateLimitError(e) ==
    IF e.isError
    THEN "429" \in e.marks \/ "RESOURCE_EXHAUSTED" \in e.marks
    ELSE FALSE

\* The user-facing message the catch block of executeAnalysis computes.
Msg(k, m) == [kind |-> k, marks |-> m]
EmptyScriptMessage == Msg("Script content cannot be empty.", {})
ErrorMessageUnavailableFirst(e) ==
    IF e.isError
    THEN IF "503" \in e.marks \/ "UNAVAILABLE" \in e.marks \/ "overloaded" \in e.marks
         THEN Msg("high demand", {})
         ELSE IF "429" \in e.marks \/ "RESOURCE_EXHAUSTED" \in e.marks
              THEN Msg("API quota exceeded.", {})
              ELSE Msg("raw", e.marks)
    ELSE Msg("An unknown error occurred during analysis.", {})
ErrorMessage(e) ==
    IF e.isError
    THEN IF "429" \in e.marks \/ "RESOURCE_EXHAUSTED" \in e.marks
         THEN Msg("API quota exceeded.", {})
         ELSE IF "503" \in e.marks \/ "UNAVAILABLE" \in e.marks \/ "overloaded" \in e.marks
              THEN Msg("high demand", {})
              ELSE Msg("raw", e.marks)
    ELSE Msg("An unknown error occurred during analysis.", {})

\* Images: the bytes returned for a request are named after the request.
NoImage == [kind |-> "none", idx |-> 0]
Req(k, i) == [kind |-> k, idx |-> i]
ImageOf(tag) == tag

\* Outcomes of one external request.
\*   ok:     the request succeeded (for a text request: and its JSON parses)
\*   empty:  an image request succeeded with no image in the response
\*   parse:  a text request succeeded, JSON.parse threw e
\*   fail:   the request threw e
Outcome(k, e) == [kind |-> k, err |-> e]
Ok == Outcome("ok", Null)
Empty == Outcome("empty", Null)
SyntaxError == Err({})
TextOutcomes == {Ok, Outcome("parse", SyntaxError)} \cup {Outcome("fail", e) : e \in TextThrown}
ImageOutcomes == {Ok, Empty} \cup {Outcome("fail", e) : e \in ImageThrown}
\* The image outcomes explored inside a whole analysis run.
AppImageOutcomes == {Ok, Outcome("fail", Err({})), Outcome("fail", Err({"429"}))}

-----------------------------------------------------------------------------
\* Pitch decks (Stage2Result).

Presence == {"on-screen", "off-screen"}
Profile(n, p) == [name |-> n, screen_presence |-> p, image_base64 |-> NoImage]

SeqsUpTo(S, n) == UNION {[1..k -> S] : k \in 0..n}

\* A Stage 2 response as parsed: no visual field is present.
Deck(profiles, nTitles) ==
    [kind |-> "stage2",
     run |-> 0,
     character_profiles |-> profiles,
     comparable_titles |-> [j \in 1..nTitles |-> j],
     concept_art_base64 |-> NoImage,
     comparable_titles_visuals |-> <<>>,
     visual_style_images_base64 |-> <<>>]

\* Decks handed to the batch runner on its own: the name plays no role there.
VisDecks ==
    {Deck(ps, t) : ps \in SeqsUpTo({Profile("A", p) : p \in Presence}, MaxProfiles),
                   t \in 0..MaxTitles}

\* The pitch deck a Stage 2 response carries inside a whole analysis run:
\* an off-screen and an on-screen profile.
AppDecks ==
    {Deck(<<Profile("A", "off-screen"), Profile("B", "on-screen")>>, 0)}

-----------------------------------------------------------------------------
\* generateAllVisuals: the visual batch runner.

Min(a, b) == IF a < b THEN a ELSE b

\* Array.prototype.slice(0, n)
Slice(s, n) == SubSeq(s, 1, Min(n, Len(s)))

\* The positions of the profiles kept by .filter(c => c.screen_presence === 'on-screen')
OnScreen(profiles) ==
    SelectSeq([i \in 1..Len(profiles) |-> i],
              LAMBDA i : profiles[i].screen_presence = "on-screen")

\* mainCharacters, as positions in character_profiles
mainCharactersNoSlice(pitchDeckData) == OnScreen(pitchDeckData.character_profiles)
mainCharacters(pitchDeckData) ==
    Slice(OnScreen(pitchDeckData.character_profiles), MaxPortraits)

\* The image requests of one batch in the order the code reaches them:
\* concept art, the portrait loop, the poster loop, the style stills.
VisualsPlan(pitchDeckData) ==
    LET mc == mainCharacters(pitchDeckData)
        ct == Slice(pitchDeckData.comparable_titles, MaxPosters)
    IN  <<Req("concept", 0)>>
        \o [k \in 1..Len(mc) |-> Req("portrait", mc[k])]
        \o [k \in 1..Len(ct) |-> Req("poster", k)]
        \o <<Req("style", 0)>>

\* The requests issued once `done` requests of the plan have been answered:
\* each await is followed by the next request only.
NextRequestsAll(plan, done) == SubSeq(plan, done + 1, Len(plan))
NextRequests(plan, done) ==
    IF done < Len(plan) THEN <<plan[done + 1]>> ELSE <<>>

EmptyVisuals ==
    [concept_art_base64 |-> NoImage,
     character_portraits |-> <<>>,
     comparable_titles_visuals |-> <<>>,
     visual_style_images_base64 |-> <<>>]

\* The assignment or push that follows a successful image request.
StoreAsset(visuals, pitchDeckData, tag) ==
    CASE tag.kind = "concept" ->
           [visuals EXCEPT !.concept_art_base64 = ImageOf(tag)]
      [] tag.kind = "portrait" ->
           [visuals EXCEPT !.character_portraits =
               Append(@, [name |-> pitchDeckData.character_profiles[tag.idx].name,
                          image_base64 |-> ImageOf(tag)])]
      [] tag.kind = "poster" ->
           [visuals EXCEPT !.comparable_titles_visuals =
               Append(@, [title |-> pitchDeckData.comparable_titles[tag.idx],
                          image_base64 |-> ImageOf(tag)])]
      [] tag.kind = "style" ->
           [visuals EXCEPT !.visual_style_images_base64 =
               [k \in 1..NumStyleStills |-> Req("style", k)]]

\* The class of an image outcome, as the catch blocks see it.
ClassOf(o) ==
    CASE o.kind = "ok" -> "ok"
      [] o.kind = "empty" -> "empty"
      [] o.kind = "fail" -> IF isRateLimitError(o.err) THEN "rate" ELSE "generic"

\* if (isRateLimitError(e)) throw e;  in the catch block of one image request
RethrowsNever(e) == FALSE
RethrowsAlways(e) == TRUE
Rethrows(e) == isRateLimitError(e)

\* One async chain: an analysis run, with the batch it may call.
\*   pc, withVisuals, result2, visuals, thrown: where the chain is and its locals
\*     (a local is reset once the code no longer reads it)
\*   calls: the requests issued so far, in order; outstanding: those unanswered
\*   outcomes: the answers of the image requests of the batch, in order
\*   stageLog: the answers of the text requests, in order
IdleRun ==
    [pc |-> "idle", withVisuals |-> FALSE, result2 |-> Null,
     calls |-> <<>>, outstanding |-> {}, outcomes |-> <<>>,
     visuals |-> EmptyVisuals, thrown |-> Null, stageLog |-> <<>>]

Issue(run, reqs) ==
    [run EXCEPT !.calls = @ \o reqs,
                !.outstanding = @ \cup {reqs[k] : k \in 1..Len(reqs)}]

\* The call generateAllVisuals(pitchDeckData) up to its first await.
StartVisuals(run, pitchDeckData) ==
    Issue([run EXCEPT !.pc = "visuals", !.result2 = pitchDeckData,
                      !.visuals = EmptyVisuals, !.outcomes = <<>>],
          NextRequests(VisualsPlan(pitchDeckData), 0))

\* The continuation of generateAllVisuals after the answer to request `tag`.
VisualsStep(run, tag, o) ==
    LET answered == [run EXCEPT !.outstanding = @ \ {tag},
                                !.outcomes = Append(@, [req |-> tag, class |-> ClassOf(o)])]
        plan == VisualsPlan(run.result2)
        more == NextRequests(plan, Len(answered.outcomes))
        next(rn) == IF more = <<>> /\ rn.outstanding = {}
                    THEN [rn EXCEPT !.pc = "visuals_returned"]
                    ELSE Issue(rn, more)
    IN  CASE o.kind = "ok" ->
               next([answered EXCEPT !.visuals = StoreAsset(@, run.result2, tag)])
          [] o.kind = "empty" -> next(answered)
          [] o.kind = "fail" ->
               IF Rethrows(o.err)
               THEN [answered EXCEPT !.pc = "visuals_thrown", !.thrown = o.err]
               ELSE next(answered)

\* generateAllVisuals called on its own with a pitch deck.
CallGenerateAllVisuals(pitchDeckData) ==
    /\ nextRun = 1
    /\ runs' = [runs EXCEPT ![nextRun] = StartVisuals(@, pitchDeckData)]
    /\ nextRun' = nextRun + 1
    /\ UNCHANGED <<status, error, activeTool, currentProject, isVisualsModalOpen,
                   scriptToAnalyze>>
    /\ UNCHANGED shotVars
    /\ UNCHANGED storeVars
    /\ UNCHANGED restVars
    /\ Autosave

\* The image service answers the outstanding request `tag` of chain r.
VisualsResponse(r, tag, o) ==
    /\ runs[r].pc = "visuals"
    /\ tag \in runs[r].outstanding
    /\ runs' = [runs EXCEPT ![r] = VisualsStep(@, tag, o)]
    /\ UNCHANGED <<status, error, activeTool, currentProject, isVisualsModalOpen,
                   scriptToAnalyze, nextRun>>
    /\ UNCHANGED shotVars
    /\ UNCHANGED storeVars
    /\ UNCHANGED restVars
    /\ Autosave

-----------------------------------------------------------------------------
\* App.tsx: the project document and the stage orchestrator.

\* A point in time held as a Date object, and the same as an ISO string.
DateObject == [kind |-> "Date"]
DateString == [kind |-> "isoString"]

DefaultShotConfig == [genre |-> "", artisticStyle |-> ""]

\* The key of a stored record.
Key(n) == [kind |-> "key", n |-> n]

\* JavaScript truthiness of a field that holds an object, null or nothing.
Truthy(x) == x \notin {Null, Undefined}

\* createNewProject(): the record has no id field.
createNewProject ==
    [kind |-> "project", id |-> Undefined, name |-> "Untitled Project",
     script |-> <<>>,
     stage1Result |-> Null, stage2Result |-> Null, stage3Result |-> Null,
     fullScenes |-> Null, shotIdeasList |-> Null, shotIdeasListContext |-> Undefined,
     storyboardData |-> Null, storyboardRequestFromShots |-> Undefined,
     storyboardRequestContext |-> Undefined,
     createdAt |-> DateObject, updatedAt |-> DateObject,
     scriptGeneratorIdea |-> "", shotIdeaStudioConfig |-> DefaultShotConfig]

Stage1Of(r) == [kind |-> "stage1", run |-> r]
Stage2Of(r, d) == [d EXCEPT !.run = r]
Stage3Of(r) == [kind |-> "stage3", run |-> r]
ScenesOf(r) == [kind |-> "scenes", run |-> r]

\* setCurrentProject(p => p ? { ...p, [f]: v } : null)
UpdateProject(p, f, v) == IF p = Null THEN Null ELSE [p EXCEPT ![f] = v]

\* The merge of the batch result into the Stage 2 result (executeAnalysis).
MergeVisualsByPosition(result2, visuals) ==
    [result2 EXCEPT
        !.concept_art_base64 =
            IF visuals.concept_art_base64 # NoImage THEN visuals.concept_art_base64 ELSE @,
        !.character_profiles =
            [i \in 1..Len(result2.character_profiles) |->
                IF i <= Len(visuals.character_portraits)
                THEN [result2.character_profiles[i] EXCEPT
                        !.image_base64 = visuals.character_portraits[i].image_base64]
                ELSE result2.character_profiles[i]],
        !.comparable_titles_visuals =
            IF Len(visuals.comparable_titles_visuals) > 0
            THEN visuals.comparable_titles_visuals ELSE @,
        !.visual_style_images_base64 =
            IF Len(visuals.visual_style_images_base64) > 0
            THEN visuals.visual_style_images_base64 ELSE @]
MergeVisuals(result2, visuals) ==
    LET find(name) ==
            LET hits == SelectSeq(visuals.character_portraits,
                                  LAMBDA p : p.name = name)
            IN  IF hits = <<>> THEN NoImage ELSE hits[1].image_base64
        r1 == IF visuals.concept_art_base64 # NoImage
              THEN [result2 EXCEPT !.concept_art_base64 = visuals.concept_art_base64]
              ELSE result2
        r2 == IF Len(visuals.character_portraits) > 0
              THEN [r1 EXCEPT !.character_profiles =
                      [i \in 1..Len(result2.character_profiles) |->
                          IF find(result2.character_profiles[i].name) # NoImage
                          THEN [result2.character_profiles[i] EXCEPT
                                  !.image_base64 = find(result2.character_profiles[i].name)]
                          ELSE result2.character_profiles[i]]]
              ELSE r1
        r3 == IF Len(visuals.comparable_titles_visuals) > 0
              THEN [r2 EXCEPT !.comparable_titles_visuals = visuals.comparable_titles_visuals]
              ELSE r2
    IN  IF Len(visuals.visual_style_images_base64) > 0
        THEN [r3 EXCEPT !.visual_style_images_base64 = visuals.visual_style_images_base64]
        ELSE r3

\* What renderScriptContent shows on the script tab.
ShowsScriptInput ==
    /\ currentProject # Null
    /\ activeTool = "script"
    /\ status \in {"IDLE", "ERROR"}

HasAllResultsStage3Only(p) == Truthy(p.stage3Result)
HasAllResults(p) ==
    /\ Truthy(p.stage1Result)
    /\ Truthy(p.stage2Result)
    /\ Truthy(p.stage3Result)

ShowsAnalysisResult ==
    /\ currentProject # Null
    /\ activeTool = "script"
    /\ status = "COMPLETE"
    /\ HasAllResults(currentProject)

\* case COMPLETE with a result missing: the render calls handleNewProject().
FallbackPending ==
    /\ currentProject # Null
    /\ activeTool = "script"
    /\ status = "COMPLETE"
    /\ ~HasAllResults(currentProject)

\* useEffect(initialize): the first project.
Initialize ==
    /\ currentProject = Null
    /\ currentProject' = createNewProject
    /\ UNCHANGED <<status, error, activeTool, isVisualsModalOpen, scriptToAnalyze,
                   runs, nextRun>>
    /\ UNCHANGED shotVars
    /\ UNCHANGED storeVars
    /\ UNCHANGED restVars
    /\ Autosave

\* handleNewProject, from the result view's button.
handleNewProject ==
    /\ ShowsAnalysisResult
    /\ currentProject' = createNewProject
    /\ status' = "IDLE"
    /\ error' = Null
    /\ activeTool' = "script"
    /\ UNCHANGED <<isVisualsModalOpen, scriptToAnalyze, runs, nextRun>>
    /\ UNCHANGED shotVars
    /\ UNCHANGED storeVars
    /\ UNCHANGED restVars
    /\ Autosave

\* handleNewProject, called by renderScriptContent as its fallback.
RenderFallback ==
    /\ FallbackPending
    /\ currentProject' = createNewProject
    /\ status' = "IDLE"
    /\ error' = Null
    /\ activeTool' = "script"
    /\ UNCHANGED <<isVisualsModalOpen, scriptToAnalyze, runs, nextRun>>
    /\ UNCHANGED shotVars
    /\ UNCHANGED storeVars
    /\ UNCHANGED restVars
    /\ Autosave

\* The nav buttons.
\* {activeTool === 'shotIdea' && <ShotIdeaStudio .../>}: when the tool
\* changes from the studio to another one the studio is unmounted, its state
\* is gone, and the next instance starts from its useState defaults; the
\* calls it has made go on.
LeaveStudio(tool) ==
    IF activeTool = "shotIdea" /\ tool # "shotIdea"
    THEN /\ isLoading' = FALSE
         /\ shotError' = Null
         /\ gens' = [g \in DOMAIN gens |->
                       IF gens[g].pc = "idle" THEN gens[g]
                       ELSE [gens[g] EXCEPT !.mounted = FALSE]]
         /\ UNCHANGED nextGen
    ELSE UNCHANGED shotVars

Tools == {"script", "scriptGenerator", "shotIdea"}
setActiveTool(tool) ==
    /\ ~FallbackPending
    /\ activeTool # tool
    /\ activeTool' = tool
    /\ UNCHANGED <<status, error, currentProject, isVisualsModalOpen, scriptToAnalyze,
                   runs, nextRun>>
    /\ LeaveStudio(tool)
    /\ UNCHANGED storeVars
    /\ UNCHANGED restVars
    /\ Autosave

\* handleAnalysis(scriptText), from the form of ScriptInput.
handleAnalysisNoGuard(scriptText) ==
    /\ ShowsScriptInput
    /\ scriptToAnalyze' = scriptText
    /\ isVisualsModalOpen' = TRUE
    /\ UNCHANGED <<status, error, activeTool, currentProject, runs, nextRun>>
    /\ UNCHANGED shotVars
    /\ UNCHANGED storeVars
    /\ UNCHANGED restVars
    /\ Autosave
handleAnalysis(scriptText) ==
    /\ ShowsScriptInput
    /\ IF Trim(scriptText) = <<>>
       THEN /\ error' = EmptyScriptMessage
            /\ UNCHANGED <<scriptToAnalyze, isVisualsModalOpen>>
       ELSE /\ scriptToAnalyze' = scriptText
            /\ isVisualsModalOpen' = TRUE
            /\ UNCHANGED error
    /\ UNCHANGED <<status, activeTool, currentProject, runs, nextRun>>
    /\ UNCHANGED shotVars
    /\ UNCHANGED storeVars
    /\ UNCHANGED restVars
    /\ Autosave

\* onClose of the visuals-choice modal.
closeVisualsModal ==
    /\ isVisualsModalOpen
    /\ isVisualsModalOpen' = FALSE
    /\ UNCHANGED <<status, error, activeTool, currentProject, scriptToAnalyze,
                   runs, nextRun>>
    /\ UNCHANGED shotVars
    /\ UNCHANGED storeVars
    /\ UNCHANGED restVars
    /\ Autosave

\* executeAnalysis(withVisuals) up to its first await: the modal's two buttons.
\* cap bounds the runs of one behaviour.
executeAnalysisKeepsProject(withVisuals, cap) ==
    /\ isVisualsModalOpen
    /\ nextRun <= cap
    /\ isVisualsModalOpen' = FALSE
    /\ IF Trim(scriptToAnalyze) = <<>>
       THEN UNCHANGED <<status, error, currentProject, runs, nextRun>>
       ELSE /\ currentProject' = UpdateProject(currentProject, "script", scriptToAnalyze)
            /\ error' = Null
            /\ status' = "ANALYZING_STAGE_1"
            /\ runs' = [runs EXCEPT ![nextRun] =
                          Issue([IdleRun EXCEPT !.pc = "stage1", !.withVisuals = withVisuals],
                                <<Req("stage1", 0)>>)]
            /\ nextRun' = nextRun + 1
    /\ UNCHANGED <<activeTool, scriptToAnalyze>>
    /\ UNCHANGED shotVars
    /\ UNCHANGED storeVars
    /\ UNCHANGED restVars
    /\ Autosave
executeAnalysis(withVisuals, cap) ==
    /\ isVisualsModalOpen
    /\ nextRun <= cap
    /\ isVisualsModalOpen' = FALSE
    /\ IF Trim(scriptToAnalyze) = <<>>
       THEN UNCHANGED <<status, error, currentProject, runs, nextRun>>
       ELSE /\ currentProject' = [createNewProject EXCEPT !.script = scriptToAnalyze]
            /\ error' = Null
            /\ status' = "ANALYZING_STAGE_1"
            /\ runs' = [runs EXCEPT ![nextRun] =
                          Issue([IdleRun EXCEPT !.pc = "stage1", !.withVisuals = withVisuals],
                                <<Req("stage1", 0)>>)]
            /\ nextRun' = nextRun + 1
    /\ UNCHANGED <<activeTool, scriptToAnalyze>>
    /\ UNCHANGED shotVars
    /\ UNCHANGED storeVars
    /\ UNCHANGED restVars
    /\ Autosave

\* The catch block of executeAnalysis.
CatchRetriesOnce(r, run, o) ==
    IF Len(SelectSeq(run.calls, LAMBDA q : q = run.calls[Len(run.calls)])) = 1
    THEN /\ runs' = [runs EXCEPT ![r] = Issue(run, <<run.calls[Len(run.calls)]>>)]
         /\ UNCHANGED <<error, status, currentProject>>
    ELSE /\ error' = ErrorMessage(o.err)
         /\ status' = "ERROR"
         /\ runs' = [runs EXCEPT ![r] =
                       [run EXCEPT !.pc = "failed", !.result2 = Null,
                                   !.visuals = EmptyVisuals, !.outcomes = <<>>,
                                   !.thrown = Null]]
         /\ UNCHANGED currentProject
CatchLeavesStatus(r, run, o) ==
    /\ error' = ErrorMessage(o.err)
    /\ runs' = [runs EXCEPT ![r] =
                  [run EXCEPT !.pc = "failed", !.result2 = Null,
                              !.visuals = EmptyVisuals, !.outcomes = <<>>,
                              !.thrown = Null]]
    /\ UNCHANGED <<status, currentProject>>
CatchRollsBack(r, run, o) ==
    /\ error' = ErrorMessage(o.err)
    /\ status' = "ERROR"
    /\ runs' = [runs EXCEPT ![r] =
                  [run EXCEPT !.pc = "failed", !.result2 = Null,
                              !.visuals = EmptyVisuals, !.outcomes = <<>>,
                              !.thrown = Null]]
    /\ currentProject' =
          UpdateProject(UpdateProject(currentProject, "stage1Result", Null),
                        "stage2Result", Null)
Catch(r, run, o) ==
    /\ error' = ErrorMessage(o.err)
    /\ status' = "ERROR"
    /\ runs' = [runs EXCEPT ![r] =
                  [run EXCEPT !.pc = "failed", !.result2 = Null,
                              !.visuals = EmptyVisuals, !.outcomes = <<>>,
                              !.thrown = Null]]
    /\ UNCHANGED currentProject

\* The answer o to the text request `tag` has arrived.
Answered(run, tag, o) ==
    [run EXCEPT !.outstanding = @ \ {tag},
                !.stageLog = Append(@, [req |-> tag, kind |-> o.kind])]

\* Whether the await of a text stage throws: the request failed, or
\* JSON.parse of its response did.
ThrowsOnFailOnly(o) == o.kind = "fail"
ThrowsOn(o) == o.kind # "ok"

\* if (withVisuals)
WantsVisualsAlways(run) == TRUE
WantsVisuals(run) == run.withVisuals

\* analyzeStage1 answers; on success the run goes on to Stage 2.
Stage1Response(r, o) ==
    LET run == Answered(runs[r], Req("stage1", 0), o) IN
    /\ runs[r].pc = "stage1"
    /\ IF ThrowsOn(o)
       THEN Catch(r, run, o)
       ELSE /\ currentProject' = UpdateProject(currentProject, "stage1Result", Stage1Of(r))
            /\ status' = "ANALYZING_STAGE_2"
            /\ runs' = [runs EXCEPT ![r] =
                          Issue([run EXCEPT !.pc = "stage2"],
                                <<Req("stage2", 0)>>)]
            /\ UNCHANGED error
    /\ UNCHANGED <<activeTool, isVisualsModalOpen, scriptToAnalyze, nextRun>>
    /\ UNCHANGED shotVars
    /\ UNCHANGED storeVars
    /\ UNCHANGED restVars
    /\ Autosave

\* analyzeStage2 answers with pitch deck d; the run goes on to the visuals
\* batch when the user opted in, else straight to Stage 3.
Stage2Response(r, o, d) ==
    LET run == Answered(runs[r], Req("stage2", 0), o)
        result2 == Stage2Of(r, d)
    IN
    /\ runs[r].pc = "stage2"
    /\ IF ThrowsOn(o)
       THEN Catch(r, run, o)
       ELSE /\ currentProject' = UpdateProject(currentProject, "stage2Result", result2)
            /\ IF WantsVisuals(run)
               THEN /\ status' = "ANALYZING_STAGE_2_VISUALS"
                    /\ runs' = [runs EXCEPT ![r] = StartVisuals(run, result2)]
               ELSE /\ status' = "ANALYZING_STAGE_3"
                    /\ runs' = [runs EXCEPT ![r] =
                                  Issue([run EXCEPT !.pc = "stage3"],
                                        <<Req("stage3", 0)>>)]
            /\ UNCHANGED error
    /\ UNCHANGED <<activeTool, isVisualsModalOpen, scriptToAnalyze, nextRun>>
    /\ UNCHANGED shotVars
    /\ UNCHANGED storeVars
    /\ UNCHANGED restVars
    /\ Autosave

\* The await of generateAllVisuals resumes (merge, then Stage 3) or throws.
AfterVisuals(r) ==
    LET run == runs[r]
        result2 == MergeVisuals(run.result2, run.visuals)
    IN
    /\ run.pc \in {"visuals_returned", "visuals_thrown"}
    /\ IF run.pc = "visuals_thrown"
       THEN Catch(r, run, Outcome("fail", run.thrown))
       ELSE /\ currentProject' = UpdateProject(currentProject, "stage2Result", result2)
            /\ status' = "ANALYZING_STAGE_3"
            /\ runs' = [runs EXCEPT ![r] =
                          Issue([run EXCEPT !.pc = "stage3", !.result2 = Null,
                                            !.visuals = EmptyVisuals, !.outcomes = <<>>],
                                <<Req("stage3", 0)>>)]
            /\ UNCHANGED error
    /\ UNCHANGED <<activeTool, isVisualsModalOpen, scriptToAnalyze, nextRun>>
    /\ UNCHANGED shotVars
    /\ UNCHANGED storeVars
    /\ UNCHANGED restVars
    /\ Autosave

\* analyzeStage3 answers; on success extractScenes is called.
Stage3Response(r, o) ==
    LET run == Answered(runs[r], Req("stage3", 0), o) IN
    /\ runs[r].pc = "stage3"
    /\ IF ThrowsOn(o)
       THEN Catch(r, run, o)
       ELSE /\ runs' = [runs EXCEPT ![r] =
                          Issue([run EXCEPT !.pc = "extract"],
                                <<Req("extractScenes", 0)>>)]
            /\ UNCHANGED <<status, error, currentProject>>
    /\ UNCHANGED <<activeTool, isVisualsModalOpen, scriptToAnalyze, nextRun>>
    /\ UNCHANGED shotVars
    /\ UNCHANGED storeVars
    /\ UNCHANGED restVars
    /\ Autosave

\* extractScenes answers; on success the run is COMPLETE.
ExtractResponse(r, o) ==
    LET run == Answered(runs[r], Req("extractScenes", 0), o) IN
    /\ runs[r].pc = "extract"
    /\ IF ThrowsOn(o)
       THEN Catch(r, run, o)
       ELSE /\ currentProject' =
                  UpdateProject(UpdateProject(currentProject, "stage3Result", Stage3Of(r)),
                                "fullScenes", ScenesOf(r))
            /\ status' = "COMPLETE"
            /\ runs' = [runs EXCEPT ![r] = [run EXCEPT !.pc = "complete"]]
            /\ UNCHANGED error
    /\ UNCHANGED <<activeTool, isVisualsModalOpen, scriptToAnalyze, nextRun>>
    /\ UNCHANGED shotVars
    /\ UNCHANGED storeVars
    /\ UNCHANGED restVars
    /\ Autosave

\* handleUseGeneratedScript(scriptText), from the Script Generator tab.
handleUseGeneratedScript(scriptText) ==
    /\ ~FallbackPending
    /\ activeTool = "scriptGenerator"
    /\ currentProject' =
          [createNewProject EXCEPT
              !.script = scriptText,
              !.scriptGeneratorIdea =
                  IF currentProject = Null THEN "" ELSE currentProject.scriptGeneratorIdea]
    /\ status' = "IDLE"
    /\ error' = Null
    /\ activeTool' = "script"
    /\ UNCHANGED <<isVisualsModalOpen, scriptToAnalyze, runs, nextRun>>
    /\ UNCHANGED shotVars
    /\ UNCHANGED storeVars
    /\ UNCHANGED restVars
    /\ Autosave

\* handleGetShotIdeas(scriptText), from the Script Generator tab.
handleGetShotIdeas(scriptText) ==
    /\ ~FallbackPending
    /\ activeTool = "scriptGenerator"
    /\ currentProject' = [createNewProject EXCEPT !.script = scriptText]
    /\ status' = "IDLE"
    /\ error' = Null
    /\ activeTool' = "shotIdea"
    /\ UNCHANGED <<isVisualsModalOpen, scriptToAnalyze, runs, nextRun>>
    /\ UNCHANGED shotVars
    /\ UNCHANGED storeVars
    /\ UNCHANGED restVars
    /\ Autosave

-----------------------------------------------------------------------------
\* generateShotIdeasAndImages and its caller, handleGenerate of ShotIdeaStudio.

appVars == <<status, error, activeTool, isVisualsModalOpen, scriptToAnalyze,
             runs, nextRun, db, nextId, exported, reading, loads>>

\* The shots of a parsed shot-list response, without images.
ShotList(k) == [i \in 1..k |-> [shot_number |-> i, image_base64 |-> NoImage]]
ContextOf(g) == [kind |-> "context", gen |-> g]
\* A shot list as the value of a project field.
Shots(list) == [kind |-> "shots", list |-> list]

\* The message the catch block of handleGenerate computes.
ShotErrorMessage(e) ==
    IF e.isError
    THEN IF "429" \in e.marks \/ "RESOURCE_EXHAUSTED" \in e.marks
         THEN Msg("API quota exceeded.", {})
         ELSE IF "503" \in e.marks \/ "UNAVAILABLE" \in e.marks \/ "overloaded" \in e.marks
              THEN Msg("high demand", {})
              ELSE Msg("raw", e.marks)
    ELSE Msg("An unknown error occurred during shot generation.", {})

\* One call of generateShotIdeasAndImages.
\*   pc: "text" (awaiting the shot list), "images" (awaiting Promise.all),
\*       "returned" / "thrown" (settled, the caller not yet resumed),
\*       "delivered" / "failed" (the caller has resumed)
\*   shots: the parsed shot list; promises: per shot "pending", "rejected" or
\*       the value its callback returned; answers: per shot the class of its answer
\*   calls, outstanding: as for an analysis run
\*   mounted: whether the studio instance that made the call is still mounted
IdleGen ==
    [pc |-> "idle", shots |-> <<>>, promises |-> <<>>, answers |-> <<>>,
     calls |-> <<>>, outstanding |-> {}, thrown |-> Null, mounted |-> TRUE]

Pending == [kind |-> "pending"]
Rejected == [kind |-> "rejected"]

\* The requests the .map of the image callbacks issues before the await.
ShotRequestsFirstOnly(shots) ==
    IF shots = <<>> THEN <<>> ELSE <<Req("shot", 1)>>
ShotRequests(shots) == [i \in 1..Len(shots) |-> Req("shot", i)]

\* What one image callback returns for its shot, or Rejected when it rethrows.
ShotCallbackDropsImage(shot, tag, o) ==
    IF o.kind = "fail" /\ isRateLimitError(o.err)
    THEN Rejected
    ELSE [shot EXCEPT !.image_base64 = NoImage]
ShotCallback(shot, tag, o) ==
    CASE o.kind = "ok" -> [shot EXCEPT !.image_base64 = ImageOf(tag)]
      [] o.kind = "empty" -> [shot EXCEPT !.image_base64 = NoImage]
      [] o.kind = "fail" ->
           IF isRateLimitError(o.err)
           THEN Rejected
           ELSE [shot EXCEPT !.image_base64 = NoImage]

\* Promise.all over the callbacks' promises, seen from the awaiting function:
\* it rejects with the first rejection and resolves once every promise has.
SettleAll(gen, e) ==
    IF gen.pc # "images" THEN gen
    ELSE IF \E i \in 1..Len(gen.promises) : gen.promises[i] = Rejected
         THEN [gen EXCEPT !.pc = "thrown", !.thrown = e]
         ELSE IF \A i \in 1..Len(gen.promises) : gen.promises[i] # Pending
              THEN [gen EXCEPT !.pc = "returned", !.shots = gen.promises]
              ELSE gen

\* handleGenerate up to its await: the Generate button of the studio.
handleGenerate(cap) ==
    /\ currentProject # Null
    /\ activeTool = "shotIdea"
    /\ ~isLoading
    /\ nextGen <= cap
    /\ IF Trim(currentProject.script) = <<>>
       THEN /\ shotError' = Msg("Please enter a script scene.", {})
            /\ UNCHANGED <<isLoading, gens, nextGen, currentProject>>
       ELSE /\ isLoading' = TRUE
            /\ shotError' = Null
            /\ currentProject' =
                  [currentProject EXCEPT !.shotIdeasList = Null,
                                         !.shotIdeasListContext = Undefined]
            /\ gens' = [gens EXCEPT ![nextGen] =
                          [IdleGen EXCEPT !.pc = "text",
                                          !.calls = <<Req("shotList", 0)>>,
                                          !.outstanding = {Req("shotList", 0)}]]
            /\ nextGen' = nextGen + 1
    /\ UNCHANGED appVars
    /\ UNCHANGED restVars
    /\ Autosave

\* onUpdateScript of the studio's textarea.
handleUpdateScript(newScript) ==
    /\ currentProject # Null
    /\ activeTool = "shotIdea"
    /\ ~isLoading
    /\ currentProject.script # newScript
    /\ currentProject' = [currentProject EXCEPT !.script = newScript]
    /\ UNCHANGED appVars
    /\ UNCHANGED shotVars
    /\ UNCHANGED restVars
    /\ Autosave

\* The text model answers with a shot list of k shots; the image requests
\* of all the shots are issued by the .map before Promise.all is awaited.
ShotListResponse(g, o, k) ==
    LET gen == [gens[g] EXCEPT !.outstanding = @ \ {Req("shotList", 0)}]
        shots == ShotList(k)
        reqs == ShotRequests(shots)
    IN
    /\ gens[g].pc = "text"
    /\ IF o.kind # "ok"
       THEN gens' = [gens EXCEPT ![g] = [gen EXCEPT !.pc = "thrown", !.thrown = o.err]]
       ELSE gens' = [gens EXCEPT ![g] =
               SettleAll([gen EXCEPT !.pc = "images",
                                     !.shots = shots,
                                     !.promises = [i \in 1..k |-> Pending],
                                     !.answers = [i \in 1..k |-> "pending"],
                                     !.calls = @ \o reqs,
                                     !.outstanding = {reqs[i] : i \in 1..Len(reqs)}],
                         Null)]
    /\ UNCHANGED <<isLoading, shotError, nextGen, currentProject>>
    /\ UNCHANGED appVars
    /\ UNCHANGED restVars
    /\ Autosave

\* The image service answers the request of shot i. Once Promise.all has
\* rejected, the request of another shot is still answered and its callback
\* still runs and settles its promise.
ShotImageResponse(g, i, o) ==
    LET gen == gens[g]
        tag == Req("shot", i)
    IN
    /\ tag \in gen.outstanding
    /\ gens' = [gens EXCEPT ![g] =
           SettleAll([gen EXCEPT !.outstanding = @ \ {tag},
                                 !.answers[i] = ClassOf(o),
                                 !.promises[i] = ShotCallback(gen.shots[i], tag, o)],
                     o.err)]
    /\ UNCHANGED <<isLoading, shotError, nextGen, currentProject>>
    /\ UNCHANGED appVars
    /\ UNCHANGED restVars
    /\ Autosave

\* handleGenerate resumes: the result is handed to onUpdateShotIdeas, or the
\* catch block sets the error; finally isLoading is reset.
AfterGenerateLatestContext(g) ==
    LET gen == gens[g] IN
    /\ gen.pc \in {"returned", "thrown"}
    /\ IF gen.pc = "returned"
       THEN /\ currentProject' =
                  IF currentProject = Null THEN Null
                  ELSE [currentProject EXCEPT !.shotIdeasList = Shots(gen.shots),
                                              !.shotIdeasListContext = ContextOf(nextGen - 1)]
            /\ gens' = [gens EXCEPT ![g] = [gen EXCEPT !.pc = "delivered"]]
            /\ UNCHANGED shotError
       ELSE /\ shotError' = IF gen.mounted THEN ShotErrorMessage(gen.thrown) ELSE shotError
            /\ gens' = [gens EXCEPT ![g] = [gen EXCEPT !.pc = "failed"]]
            /\ UNCHANGED currentProject
    /\ isLoading' = IF gen.mounted THEN FALSE ELSE isLoading
    /\ UNCHANGED nextGen
    /\ UNCHANGED appVars
    /\ UNCHANGED restVars
    /\ Autosave
AfterGenerate(g) ==
    LET gen == gens[g] IN
    /\ gen.pc \in {"returned", "thrown"}
    /\ IF gen.pc = "returned"
       THEN /\ currentProject' =
                  IF currentProject = Null THEN Null
                  ELSE [currentProject EXCEPT !.shotIdeasList = Shots(gen.shots),
                                              !.shotIdeasListContext = ContextOf(g)]
            /\ gens' = [gens EXCEPT ![g] = [gen EXCEPT !.pc = "delivered"]]
            /\ UNCHANGED shotError
       ELSE /\ shotError' = IF gen.mounted THEN ShotErrorMessage(gen.thrown) ELSE shotError
            /\ gens' = [gens EXCEPT ![g] = [gen EXCEPT !.pc = "failed"]]
            /\ UNCHANGED currentProject
    /\ isLoading' = IF gen.mounted THEN FALSE ELSE isLoading
    /\ UNCHANGED nextGen
    /\ UNCHANGED appVars
    /\ UNCHANGED restVars
    /\ Autosave

\* handleGenerateStoryboardFromShots(project.shotIdeasList, project.shotIdeasListContext),
\* from the studio's storyboard button.
handleGenerateStoryboardFromShots ==
    /\ currentProject # Null
    /\ activeTool = "shotIdea"
    /\ Truthy(currentProject.shotIdeasList)
    /\ Len(currentProject.shotIdeasList.list) > 0
    /\ Truthy(currentProject.shotIdeasListContext)
    /\ currentProject' =
          [currentProject EXCEPT
              !.storyboardRequestFromShots = currentProject.shotIdeasList,
              !.storyboardRequestContext = currentProject.shotIdeasListContext,
              !.storyboardData = Null]
    /\ activeTool' = "storyboard"
    /\ LeaveStudio("storyboard")
    /\ UNCHANGED <<status, error, isVisualsModalOpen, scriptToAnalyze, runs, nextRun>>
    /\ UNCHANGED storeVars
    /\ UNCHANGED restVars
    /\ Autosave

------------------------------------------------------------------------------
\* generateVideo.

\* One call of generateVideo.
\*   pc: "starting" (awaiting generateVideos), "sleeping" (awaiting the timer
\*       of the loop), "polling" (awaiting getVideosOperation), "downloading"
\*       (awaiting fetch), "returned", "thrown"
\*   payload: the request built from the parameters
\*   started: generateVideos has returned an operation
\*   polls: the polls made, counted up to MaxPolls
\*   delay: the delay of the timer awaited
\*   done: the operation has reported done; pollFailed: a poll has thrown
IdleVideo ==
    [pc |-> "idle", payload |-> Null, started |-> FALSE, polls |-> 0, delay |-> 0,
     done |-> FALSE, pollFailed |-> FALSE, thrown |-> Null]

Resolutions == {"720p", "1080p"}

\* requestPayload: the image only with a first frame, the last frame only
\* with both frames.
VideoPayload(resolution, firstFrame, lastFrame) ==
    [model |-> "veo-3.1-fast-generate-preview", resolution |-> resolution,
     image |-> firstFrame, lastFrame |-> firstFrame /\ lastFrame]

\* What the operation object says: whether it is done and, when it is,
\* whether its response has a download link.
Operation(done, link) == [kind |-> "operation", done |-> done, link |-> link]
Operations == {Operation(FALSE, FALSE), Operation(TRUE, FALSE), Operation(TRUE, TRUE)}

NoKey == Err({"API key not found after selection."})
EntityNotFound == Err({"Requested entity was not found"})
KeyError == Err({"API key error."})
NoLink == Err({"no download link was provided"})
DownloadFailed == Err({"Failed to download the generated video."})
PollThrown == {EntityNotFound, Err({"503"}), NonErr({})}

\* The call up to its first await.
generateVideo(hasKey, resolution, firstFrame, lastFrame) ==
    /\ video.pc = "idle"
    /\ video' = IF hasKey
                THEN [video EXCEPT !.pc = "starting",
                                   !.payload = VideoPayload(resolution, firstFrame, lastFrame)]
                ELSE [video EXCEPT !.pc = "thrown", !.thrown = NoKey]
    /\ UNCHANGED <<appVars, shotVars, currentProject, timer, deletes, deleted, board>>

\* while (!operation.done) and the code after the loop, for the operation
\* object the function now holds.
LoopTest(v, operation) ==
    IF ~operation.done
    THEN [v EXCEPT !.pc = "sleeping", !.delay = PollInterval]
    ELSE IF operation.link
         THEN [v EXCEPT !.pc = "downloading", !.done = TRUE]
         ELSE [v EXCEPT !.pc = "thrown", !.done = TRUE, !.thrown = NoLink]

\* generateVideos answers with an operation, or fails.
VideoStartResponse(o) ==
    /\ video.pc = "starting"
    /\ video' = IF o.kind = "fail"
                THEN [video EXCEPT !.pc = "thrown", !.thrown = o.err]
                ELSE LoopTest([video EXCEPT !.started = TRUE], o.operation)
    /\ UNCHANGED <<appVars, shotVars, currentProject, timer, deletes, deleted, board>>

\* The timer of the loop fires and the poll is made. The count of polls
\* stops at MaxPolls, the polling does not.
PollTimerGivesUp ==
    /\ video.pc = "sleeping"
    /\ video' = IF video.polls < MaxPolls - 1
                THEN [video EXCEPT !.pc = "polling", !.polls = Min(video.polls + 1, MaxPolls)]
                ELSE [video EXCEPT !.pc = "thrown", !.thrown = Err({"timed out"})]
    /\ UNCHANGED <<appVars, shotVars, currentProject, timer, deletes, deleted, board>>
PollTimer ==
    /\ video.pc = "sleeping"
    /\ video' = [video EXCEPT !.pc = "polling", !.polls = Min(video.polls + 1, MaxPolls)]
    /\ UNCHANGED <<appVars, shotVars, currentProject, timer, deletes, deleted, board>>

\* getVideosOperation answers with the operation, or fails.
PollResponse(o) ==
    /\ video.pc = "polling"
    /\ video' = IF o.kind = "fail"
                THEN [video EXCEPT
                        !.pc = "thrown", !.pollFailed = TRUE,
                        !.thrown = IF "Requested entity was not found" \in o.err.marks
                                   THEN KeyError ELSE o.err]
                ELSE LoopTest(video, o.operation)
    /\ UNCHANGED <<appVars, shotVars, currentProject, timer, deletes, deleted, board>>

\* fetch of the download link answers: ok, not ok, or it fails.
DownloadResponse(o) ==
    /\ video.pc = "downloading"
    /\ video' = CASE o.kind = "ok" -> [video EXCEPT !.pc = "returned"]
                  [] o.kind = "notOk" -> [video EXCEPT !.pc = "thrown", !.thrown = DownloadFailed]
                  [] o.kind = "fail" -> [video EXCEPT !.pc = "thrown", !.thrown = o.err]
    /\ UNCHANGED <<appVars, shotVars, currentProject, timer, deletes, deleted, board>>

------------------------------------------------------------------------------
\* generateStoryboardFromShots.

\* One call of generateStoryboardFromShots.
\*   pc: "images" (awaiting Promise.all), "returned", "thrown"
\*   shots: the shots handed in; promises: per shot Pending, Rejected or the
\*       value its promise resolved with; answers: per shot the answer of its
\*       request; images: the array returned
IdleBoard ==
    [pc |-> "idle", shots |-> <<>>, promises |-> <<>>, answers |-> <<>>,
     outstanding |-> {}, images |-> <<>>, thrown |-> Null]

\* What the promise of one shot resolves with: the image of
\* _generateImageForShot, or what the .catch callback returns.
PanelCallbackRethrows(tag, o) ==
    CASE o.kind = "ok" -> ImageOf(tag)
      [] o.kind = "empty" -> NoImage
      [] o.kind = "fail" -> IF isRateLimitError(o.err) THEN Rejected ELSE NoImage
PanelCallback(tag, o) ==
    CASE o.kind = "ok" -> ImageOf(tag)
      [] o.kind = "empty" -> NoImage
      [] o.kind = "fail" -> NoImage

\* Promise.all over the promises of the shots, seen from the awaiting function.
SettleBoard(b, e) ==
    IF b.pc # "images" THEN b
    ELSE IF \E i \in 1..Len(b.promises) : b.promises[i] = Rejected
         THEN [b EXCEPT !.pc = "thrown", !.thrown = e]
         ELSE IF \A i \in 1..Len(b.promises) : b.promises[i] # Pending
              THEN [b EXCEPT !.pc = "returned", !.images = b.promises]
              ELSE b

\* The call: the .map issues the request of every shot, then Promise.all is
\* awaited.
generateStoryboardFromShots(n) ==
    /\ board.pc = "idle"
    /\ board' = SettleBoard([board EXCEPT
                    !.pc = "images",
                    !.shots = ShotList(n),
                    !.promises = [i \in 1..n |-> Pending],
                    !.answers = [i \in 1..n |-> Pending],
                    !.outstanding = {Req("panel", i) : i \in 1..n}], Null)
    /\ UNCHANGED <<appVars, shotVars, currentProject, timer, deletes, deleted, video>>

\* The image service answers the request of shot i.
PanelResponse(i, o) ==
    LET tag == Req("panel", i) IN
    /\ tag \in board.outstanding
    /\ board' = SettleBoard([board EXCEPT
                    !.outstanding = @ \ {tag},
                    !.answers[i] = o,
                    !.promises[i] = PanelCallback(tag, o)], o.err)
    /\ UNCHANGED <<appVars, shotVars, currentProject, timer, deletes, deleted, video>>

------------------------------------------------------------------------------
\* App.tsx: export, import and load of project files, over the project store.

\* The project store (./db). saveProject(p) creates a record under a new key
\* when p has no id and replaces the record under p's id otherwise; it
\* returns the key. getProject(id) reads the record, which carries its key.
Put(store, n, p) == [i \in DOMAIN store \cup {n} |-> IF i = n THEN p ELSE store[i]]
SaveKey(p, next) == IF p.id = Undefined THEN next ELSE p.id.n
SaveProject(store, n, p) == Put(store, n, [p EXCEPT !.id = Key(n)])
DeleteProject(store, n) == [i \in DOMAIN store \ {n} |-> store[i]]
GetProject(store, n) == IF n \in DOMAIN store THEN store[n] ELSE Undefined

\* JSON values whose type the import tests.
JStr(s) == [kind |-> "string", val |-> s]
JNum == [kind |-> "number"]

\* The text of a file: JSON text carries the value it denotes.
NotJson == [kind |-> "text", json |-> FALSE, value |-> Null]
JsonText(v) == [kind |-> "text", json |-> TRUE, value |-> v]

\* JSON.stringify(currentProject, null, 2): a field without a value is left
\* out, and a Date is written as its ISO string.
StringifyLosesToolConfig(p) ==
    JsonText([p EXCEPT !.name = JStr(@), !.script = JStr(@),
                       !.createdAt = DateString, !.updatedAt = DateString,
                       !.shotIdeaStudioConfig = DefaultShotConfig])
Stringify(p) ==
    JsonText([p EXCEPT !.name = JStr(@), !.script = JStr(@),
                       !.createdAt = DateString, !.updatedAt = DateString])

\* typeof v === 'string'
IsString(v) == v.kind = "string"

\* The test of handleImportProject on the parsed value.
IsProjectFileNameOnly(v) ==
    /\ v # Null
    /\ IsString(v.name)
IsProjectFile(v) ==
    /\ v # Null
    /\ IsString(v.name)
    /\ IsString(v.script)

\* The parsed value read as a Project.
Unwrap(x) == IF IsString(x) THEN x.val ELSE x
AsProject(v) == [v EXCEPT !.name = Unwrap(@), !.script = Unwrap(@)]

\* delete importedProject.id; createdAt = updatedAt = new Date()
PrepareImportKeepsId(v) ==
    [AsProject(v) EXCEPT !.createdAt = DateObject, !.updatedAt = DateObject]
PrepareImport(v) ==
    [AsProject(v) EXCEPT !.id = Undefined,
                         !.createdAt = DateObject, !.updatedAt = DateObject]

\* What the try block of reader.onload throws on a file it does not accept.
InvalidFormat == Err({"Invalid project file format."})
ImportThrown(file) == IF file.json THEN InvalidFormat ELSE SyntaxError

\* err instanceof Error ? err.message : "Could not import project file."
ImportErrorMessage(e) ==
    IF e.isError THEN Msg("raw", e.marks)
    ELSE Msg("Could not import project file.", {})

\* handleExportProject, from the result view's button.
handleExportProject ==
    /\ ShowsAnalysisResult
    /\ exported' = Stringify(currentProject)
    /\ UNCHANGED <<status, error, activeTool, currentProject, isVisualsModalOpen,
                   scriptToAnalyze, runs, nextRun, db, nextId, reading, loads>>
    /\ UNCHANGED shotVars
    /\ UNCHANGED restVars
    /\ Autosave

\* handleImportProject(file): the FileReader starts to read the file.
handleImportProject(file) ==
    /\ ~FallbackPending
    /\ Cardinality(reading) < MaxReading
    /\ file \notin reading
    /\ reading' = reading \cup {file}
    /\ UNCHANGED <<status, error, activeTool, currentProject, isVisualsModalOpen,
                   scriptToAnalyze, runs, nextRun, db, nextId, exported, loads>>
    /\ UNCHANGED shotVars
    /\ UNCHANGED restVars
    /\ Autosave

\* reader.onload: parse, test, save as a new record, then load that record.
ReaderOnload(file) ==
    /\ file \in reading
    /\ reading' = reading \ {file}
    /\ IF file.json /\ IsProjectFile(file.value)
       THEN LET importedProject == PrepareImport(file.value)
                newId == SaveKey(importedProject, nextId)
            IN  /\ nextId <= MaxSaved
                /\ db' = SaveProject(db, newId, importedProject)
                /\ nextId' = IF newId = nextId THEN nextId + 1 ELSE nextId
                /\ loads' = loads \cup {newId}
                /\ UNCHANGED error
       ELSE /\ error' = ImportErrorMessage(ImportThrown(file))
            /\ UNCHANGED <<db, nextId, loads>>
    /\ UNCHANGED <<status, activeTool, currentProject, isVisualsModalOpen,
                   scriptToAnalyze, runs, nextRun, exported>>
    /\ UNCHANGED shotVars
    /\ UNCHANGED restVars
    /\ Autosave

\* handleLoadProject(id), from the project manager: getProject is asked.
handleLoadProject(n) ==
    /\ ~FallbackPending
    /\ n \in DOMAIN db
    /\ n \notin loads
    /\ loads' = loads \cup {n}
    /\ UNCHANGED <<status, error, activeTool, currentProject, isVisualsModalOpen,
                   scriptToAnalyze, runs, nextRun, db, nextId, exported, reading>>
    /\ UNCHANGED shotVars
    /\ UNCHANGED restVars
    /\ Autosave

\* handleLoadProject resumes with the record read.
LoadResponse(n) ==
    LET project == GetProject(db, n) IN
    /\ n \in loads
    /\ loads' = loads \ {n}
    /\ IF project # Undefined
       THEN /\ currentProject' = project
            /\ status' = IF Truthy(project.stage3Result) THEN "COMPLETE" ELSE "IDLE"
            /\ activeTool' = "script"
       ELSE UNCHANGED <<currentProject, status, activeTool>>
    /\ UNCHANGED <<error, isVisualsModalOpen, scriptToAnalyze, runs, nextRun,
                   db, nextId, exported, reading>>
    /\ UNCHANGED shotVars
    /\ UNCHANGED restVars
    /\ Autosave

\* The timer of the auto-save effect fires: the project the effect saw is
\* saved with a new updatedAt. saveProject is not awaited; the store is
\* taken to write the record at once. The refresh of the cached project
\* list, which only the project manager displays, is left out.
AutosaveFires ==
    /\ timer # Null
    /\ db' = SaveProject(db, SaveKey(timer, nextId), [timer EXCEPT !.updatedAt = DateObject])
    /\ timer' = Null
    /\ UNCHANGED <<status, error, activeTool, currentProject, isVisualsModalOpen,
                   scriptToAnalyze, runs, nextRun, nextId, exported, reading, loads>>
    /\ UNCHANGED shotVars
    /\ UNCHANGED restVars

\* handleDeleteProject(id), from the project manager, up to its first await.
\* The handler is the one of the last render: the currentProject it tests
\* after its awaits is the one of the moment of the click.
handleDeleteProject(n) ==
    /\ ~FallbackPending
    /\ n \in DOMAIN db
    /\ \A d \in deletes : d.id # n
    /\ deletes' = deletes \cup
          {[id |-> n, pc |-> "deleting",
            isCurrent |-> currentProject # Null /\ currentProject.id = Key(n)]}
    /\ UNCHANGED <<status, error, activeTool, currentProject, isVisualsModalOpen,
                   scriptToAnalyze, runs, nextRun, timer, deleted, video, board>>
    /\ UNCHANGED shotVars
    /\ UNCHANGED storeVars

\* deleteProject(id) has removed the record; the handler awaits the refresh
\* of the project list.
DeleteResponse(d) ==
    /\ d \in deletes
    /\ d.pc = "deleting"
    /\ db' = DeleteProject(db, d.id)
    /\ deletes' = (deletes \ {d}) \cup {[d EXCEPT !.pc = "refreshing"]}
    /\ UNCHANGED <<status, error, activeTool, currentProject, isVisualsModalOpen,
                   scriptToAnalyze, runs, nextRun, nextId, exported, reading, loads,
                   timer, deleted, video, board>>
    /\ UNCHANGED shotVars

\* The handler resumes after the refresh: if (currentProject?.id === id)
\* handleNewProject(); and it completes.
DeleteResume(d) ==
    /\ d \in deletes
    /\ d.pc = "refreshing"
    /\ deletes' = deletes \ {d}
    /\ deleted' = deleted \cup {d.id}
    /\ IF d.isCurrent
       THEN /\ currentProject' = createNewProject
            /\ status' = "IDLE"
            /\ error' = Null
            /\ activeTool' = "script"
            /\ LeaveStudio("script")
       ELSE /\ UNCHANGED <<currentProject, status, error, activeTool>>
            /\ UNCHANGED shotVars
    /\ UNCHANGED <<isVisualsModalOpen, scriptToAnalyze, runs, nextRun, video, board>>
    /\ UNCHANGED storeVars
    /\ Autosave

\* No auto-save is pending, nothing is being deleted, no video or storyboard
\* call is under way.
RestInit ==
    /\ timer = Null
    /\ deletes = {}
    /\ deleted = {}
    /\ video = IdleVideo
    /\ board = IdleBoard

ImageTags ==
    {Req("concept", 0), Req("style", 0)}
    \cup {Req("portrait", i) : i \in 1..MaxProfiles}
    \cup {Req("poster", j) : j \in 1..MaxPosters}

Init ==
    /\ status = "IDLE"
    /\ error = Null
    /\ activeTool = "script"
    /\ currentProject = Null
    /\ isVisualsModalOpen = FALSE
    /\ scriptToAnalyze = <<>>
    /\ runs = [r \in RunIds |-> IdleRun]
    /\ nextRun = 1
    /\ isLoading = FALSE
    /\ shotError = Null
    /\ gens = [g \in GenIds |-> IdleGen]
    /\ nextGen = 1
    /\ db = <<>>
    /\ nextId = 1
    /\ exported = Null
    /\ reading = {}
    /\ loads = {}
    /\ RestInit

NextVisuals ==
    \/ \E d \in VisDecks : CallGenerateAllVisuals(d)
    \/ \E r \in RunIds, tag \in ImageTags, o \in ImageOutcomes : VisualsResponse(r, tag, o)

\* The batch runner alone, on every pitch deck within the bounds.
SpecVisuals == Init /\ [][NextVisuals]_vars

\* The Shot Idea Studio, open on a project.
InitShots ==
    /\ status = "IDLE"
    /\ error = Null
    /\ activeTool = "shotIdea"
    /\ currentProject = createNewProject
    /\ isVisualsModalOpen = FALSE
    /\ scriptToAnalyze = <<>>
    /\ runs = [r \in RunIds |-> IdleRun]
    /\ nextRun = 1
    /\ isLoading = FALSE
    /\ shotError = Null
    /\ gens = [g \in GenIds |-> IdleGen]
    /\ nextGen = 1
    /\ db = <<>>
    /\ nextId = 1
    /\ exported = Null
    /\ reading = {}
    /\ loads = {}
    /\ RestInit

NextShots ==
    \/ handleGenerate(MaxGens)
    \/ \E s \in Scripts : handleUpdateScript(s)
    \/ \E g \in GenIds, o \in TextOutcomes, k \in 0..MaxShots : ShotListResponse(g, o, k)
    \/ \E g \in GenIds, i \in 1..MaxShots, o \in ImageOutcomes : ShotImageResponse(g, i, o)
    \/ \E g \in GenIds : AfterGenerate(g)

\* The shot blueprint generator driven by the studio.
SpecShots == InitShots /\ [][NextShots]_vars

\* The studio is left and entered again while its generations are under way.
StudioTextOutcomes == {Ok, Outcome("fail", Err({}))}
StudioImageOutcomes == {Ok, Empty}
NextStudio ==
    \/ handleGenerate(MaxStudioGens)
    \/ \E s \in {<<"x">>} : handleUpdateScript(s)
    \/ \E tool \in {"script", "shotIdea"} : setActiveTool(tool)
    \/ \E g \in GenIds, o \in StudioTextOutcomes, k \in 0..MaxStudioShots :
          ShotListResponse(g, o, k)
    \/ \E g \in GenIds, i \in 1..MaxStudioShots, o \in StudioImageOutcomes :
          ShotImageResponse(g, i, o)
    \/ \E g \in GenIds : AfterGenerate(g)
    \/ handleGenerateStoryboardFromShots

\* Shot generations that overlap, and the storyboard request made from a shot list.
SpecStudio == InitShots /\ [][NextStudio]_vars

GeneratedScripts == {s \in Scripts : s # <<>>}

\* The text outcomes explored inside a whole analysis run: success, a reply
\* that does not parse, a rate-limit failure and an unavailable service.
AppTextOutcomes ==
    {Ok, Outcome("parse", SyntaxError), Outcome("fail", Err({"429"})),
     Outcome("fail", Err({"503"}))}

Next ==
    \/ Initialize
    \/ handleNewProject
    \/ RenderFallback
    \/ \E tool \in Tools : setActiveTool(tool)
    \/ \E s \in Scripts : handleAnalysis(s)
    \/ closeVisualsModal
    \/ \E v \in BOOLEAN : executeAnalysis(v, MaxRuns)
    \/ \E r \in RunIds, o \in AppTextOutcomes : Stage1Response(r, o)
    \/ \E r \in RunIds, o \in AppTextOutcomes, d \in AppDecks : Stage2Response(r, o, d)
    \/ \E r \in RunIds, tag \in ImageTags, o \in AppImageOutcomes : VisualsResponse(r, tag, o)
    \/ \E r \in RunIds : AfterVisuals(r)
    \/ \E r \in RunIds, o \in AppTextOutcomes : Stage3Response(r, o)
    \/ \E r \in RunIds, o \in AppTextOutcomes : ExtractResponse(r, o)
    \/ \E s \in GeneratedScripts : handleUseGeneratedScript(s)
    \/ \E s \in GeneratedScripts : handleGetShotIdeas(s)

\* The application: the pipeline with every user action that can interleave.
Spec == Init /\ [][Next]_vars

\* The outcomes explored when runs overlap.
OverlapTextOutcomes == {Ok, Outcome("parse", SyntaxError), Outcome("fail", Err({"429"}))}

NextOverlap ==
    \/ Initialize
    \/ handleNewProject
    \/ RenderFallback
    \/ \E tool \in Tools : setActiveTool(tool)
    \/ \E s \in Scripts : handleAnalysis(s)
    \/ closeVisualsModal
    \/ executeAnalysis(FALSE, MaxOverlap)
    \/ \E r \in RunIds, o \in OverlapTextOutcomes : Stage1Response(r, o)
    \/ \E r \in RunIds, o \in OverlapTextOutcomes, d \in AppDecks : Stage2Response(r, o, d)
    \/ \E r \in RunIds, o \in OverlapTextOutcomes : Stage3Response(r, o)
    \/ \E r \in RunIds, o \in OverlapTextOutcomes : ExtractResponse(r, o)
    \/ \E s \in GeneratedScripts : handleUseGeneratedScript(s)
    \/ \E s \in GeneratedScripts : handleGetShotIdeas(s)

\* Overlapping analysis runs, without the visuals batch.
SpecOverlap == Init /\ [][NextOverlap]_vars

\* The files a user hands to the import: projects written by other sessions,
\* with and without an id, complete and incomplete, and files that are not
\* project files.
\* The id found in a file written by another session.
FileId == MaxSaved + 5
FileDeck == CHOOSE d \in AppDecks : TRUE
CustomShotConfig == [genre |-> "noir", artisticStyle |-> ""]
PlainProject ==
    [createNewProject EXCEPT !.id = Key(FileId), !.name = "Plain", !.script = <<"x">>,
                             !.scriptGeneratorIdea = "idea"]
CompleteProject ==
    [createNewProject EXCEPT !.id = Key(FileId), !.name = "Complete", !.script = <<"x">>,
                             !.stage1Result = Stage1Of(0),
                             !.stage2Result = Stage2Of(0, FileDeck),
                             !.stage3Result = Stage3Of(0),
                             !.shotIdeaStudioConfig = CustomShotConfig]
Stage3OnlyProject ==
    [createNewProject EXCEPT !.name = "Stage3Only", !.script = <<"x">>,
                             !.stage3Result = Stage3Of(0)]
\* The text of a project file that holds project p.
FileOf(p) ==
    JsonText([p EXCEPT !.name = JStr(@), !.script = JStr(@),
                       !.createdAt = DateString, !.updatedAt = DateString])
ProjectFiles == {FileOf(PlainProject), FileOf(CompleteProject),
                 FileOf(Stage3OnlyProject)}
OtherFiles ==
    {NotJson, JsonText(Null),
     JsonText([FileOf(CompleteProject).value EXCEPT !.name = Undefined]),
     JsonText([FileOf(CompleteProject).value EXCEPT !.name = JNum]),
     JsonText([FileOf(CompleteProject).value EXCEPT !.script = Undefined])}
UserFiles == ProjectFiles \cup OtherFiles \cup (IF exported = Null THEN {} ELSE {exported})

NextProjects ==
    \/ Initialize
    \/ handleNewProject
    \/ RenderFallback
    \/ handleExportProject
    \/ \E file \in UserFiles : handleImportProject(file)
    \/ \E file \in UserFiles : ReaderOnload(file)
    \/ \E n \in 1..MaxSaved : handleLoadProject(n)
    \/ \E n \in 1..MaxSaved : LoadResponse(n)

\* Export, import and load of projects, the analysis left aside.
SpecProjects == Init /\ [][NextProjects]_vars

\* The files imported next to a run: a complete project and one that has a
\* Stage 3 result only.
LoadFiles == {FileOf(CompleteProject), FileOf(Stage3OnlyProject)}

NextLoad ==
    \/ Initialize
    \/ handleNewProject
    \/ RenderFallback
    \/ \E s \in GeneratedScripts : handleAnalysis(s)
    \/ executeAnalysis(FALSE, MaxProjectRuns)
    \/ \E r \in RunIds : Stage1Response(r, Ok)
    \/ \E r \in RunIds : Stage2Response(r, Ok, FileDeck)
    \/ \E r \in RunIds : Stage3Response(r, Ok)
    \/ \E r \in RunIds : ExtractResponse(r, Ok)
    \/ \E file \in LoadFiles : handleImportProject(file)
    \/ \E file \in LoadFiles : ReaderOnload(file)
    \/ \E n \in 1..MaxSaved : handleLoadProject(n)
    \/ \E n \in 1..MaxSaved : LoadResponse(n)

\* Analysis runs whose requests succeed, interleaved with import and load.
SpecLoad == Init /\ [][NextLoad]_vars

NextAutosave ==
    \/ Initialize
    \/ \E s \in GeneratedScripts : handleAnalysis(s)
    \/ executeAnalysis(FALSE, MaxProjectRuns)
    \/ \E r \in RunIds : Stage1Response(r, Ok)
    \/ \E r \in RunIds : Stage2Response(r, Ok, FileDeck)
    \/ \E r \in RunIds : Stage3Response(r, Ok)
    \/ \E r \in RunIds : ExtractResponse(r, Ok)
    \/ \E file \in LoadFiles : handleImportProject(file)
    \/ \E file \in LoadFiles : ReaderOnload(file)
    \/ \E n \in 1..MaxSaved : handleLoadProject(n)
    \/ \E n \in 1..MaxSaved : LoadResponse(n)
    \/ AutosaveFires

\* Analysis runs interleaved with import and load, and the auto-save.
SpecAutosave == Init /\ [][NextAutosave]_vars

DeleteStates ==
    [id : 1..MaxSaved, pc : {"deleting", "refreshing"}, isCurrent : BOOLEAN]

\* The file imported to have saved projects.
DeleteFiles == {FileOf(PlainProject)}

NextDelete ==
    \/ Initialize
    \/ \E file \in DeleteFiles : handleImportProject(file)
    \/ \E file \in DeleteFiles : ReaderOnload(file)
    \/ \E n \in 1..MaxSaved : handleLoadProject(n)
    \/ \E n \in 1..MaxSaved : LoadResponse(n)
    \/ AutosaveFires
    \/ \E n \in 1..MaxSaved : handleDeleteProject(n)
    \/ \E d \in DeleteStates : DeleteResponse(d)
    \/ \E d \in DeleteStates : DeleteResume(d)

\* Saved projects that are loaded, auto-saved and deleted.
SpecDelete == Init /\ [][NextDelete]_vars

\* The outcomes of a request when every request is answered.
LiveTextOutcomes == {Ok, Outcome("parse", SyntaxError), Outcome("fail", Err({"503"}))}
LiveImageOutcomes == {Ok, Outcome("fail", Err({"429"}))}

\* A resumption of run r: the response to one of its requests arrives, or the
\* code after the returned batch goes on.
RunStep(r) ==
    \/ \E o \in LiveTextOutcomes : Stage1Response(r, o)
    \/ \E o \in LiveTextOutcomes, d \in AppDecks : Stage2Response(r, o, d)
    \/ \E tag \in ImageTags, o \in LiveImageOutcomes : VisualsResponse(r, tag, o)
    \/ AfterVisuals(r)
    \/ \E o \in LiveTextOutcomes : Stage3Response(r, o)
    \/ \E o \in LiveTextOutcomes : ExtractResponse(r, o)

NextLive ==
    \/ Initialize
    \/ \E tool \in {"script", "scriptGenerator"} : setActiveTool(tool)
    \/ handleAnalysis(<<"x">>)
    \/ \E v \in BOOLEAN : executeAnalysis(v, MaxRuns)
    \/ \E r \in RunIds : RunStep(r)
    \/ handleUseGeneratedScript(<<"x">>)

\* Every request is eventually answered: a run that can resume does resume.
Answering == \A r \in RunIds : WF_vars(RunStep(r))

\* The pipeline when every external request eventually succeeds or fails.
SpecLive == Init /\ [][NextLive]_vars /\ Answering

\* The pitch decks whose merge is explored: profiles that may share a name.
Names == {"A", "B"}
MergeDecks ==
    {Deck(ps, 0) : ps \in SeqsUpTo({Profile(n, p) : n \in Names, p \in Presence},
                                   MaxProfiles)}

\* A run with visuals awaits its Stage 2 response.
InitMerge ==
    /\ status = "ANALYZING_STAGE_2"
    /\ error = Null
    /\ activeTool = "script"
    /\ currentProject = [createNewProject EXCEPT !.script = <<"x">>,
                                                 !.stage1Result = Stage1Of(1)]
    /\ isVisualsModalOpen = FALSE
    /\ scriptToAnalyze = <<"x">>
    /\ runs = [r \in RunIds |->
                 IF r = 1
                 THEN [IdleRun EXCEPT
                         !.pc = "stage2", !.withVisuals = TRUE,
                         !.calls = <<Req("stage1", 0), Req("stage2", 0)>>,
                         !.outstanding = {Req("stage2", 0)},
                         !.stageLog = <<[req |-> Req("stage1", 0), kind |-> "ok"]>>]
                 ELSE IdleRun]
    /\ nextRun = 2
    /\ isLoading = FALSE
    /\ shotError = Null
    /\ gens = [g \in GenIds |-> IdleGen]
    /\ nextGen = 1
    /\ db = <<>>
    /\ nextId = 1
    /\ exported = Null
    /\ reading = {}
    /\ loads = {}
    /\ RestInit

NextMerge ==
    \/ \E d \in MergeDecks : Stage2Response(1, Ok, d)
    \/ \E tag \in ImageTags, o \in ImageOutcomes : VisualsResponse(1, tag, o)
    \/ AfterVisuals(1)

\* The visuals step of one run, on every pitch deck within the bounds.
SpecMerge == InitMerge /\ [][NextMerge]_vars

VideoAnswers ==
    {[kind |-> "operation", operation |-> op, err |-> Null] : op \in Operations}
DownloadAnswers == {Outcome("ok", Null), Outcome("notOk", Null), Outcome("fail", Err({}))}

\* A resumption of the call of generateVideo.
VideoStep ==
    \/ \E o \in VideoAnswers \cup {Outcome("fail", Err({}))} : VideoStartResponse(o)
    \/ PollTimer
    \/ \E o \in VideoAnswers \cup {Outcome("fail", e) : e \in PollThrown} : PollResponse(o)
    \/ \E o \in DownloadAnswers : DownloadResponse(o)

NextVideo ==
    \/ \E hasKey \in BOOLEAN, resolution \in Resolutions, firstFrame \in BOOLEAN,
          lastFrame \in BOOLEAN : generateVideo(hasKey, resolution, firstFrame, lastFrame)
    \/ VideoStep

\* One call of generateVideo whose timer fires and whose requests are answered.
SpecVideo == Init /\ [][NextVideo]_vars /\ WF_vars(VideoStep)

NextBoard ==
    \/ \E n \in 0..MaxPanels : generateStoryboardFromShots(n)
    \/ \E i \in 1..MaxPanels, o \in ImageOutcomes : PanelResponse(i, o)

\* One call of generateStoryboardFromShots on every number of shots.
SpecBoard == Init /\ [][NextBoard]_vars

\* The substrings the two catch blocks look for in the message of an error.
Marks == {"429", "RESOURCE_EXHAUSTED", "503", "UNAVAILABLE", "overloaded"}
MessageThrown == {Err(m) : m \in SUBSET Marks} \cup {NonErr(m) : m \in SUBSET Marks}

\* An analysis run awaits Stage 1 while, on the Shot Idea tab, a shot
\* generation has thrown e and handleGenerate has not resumed yet.
InitMessages ==
    /\ status = "ANALYZING_STAGE_1"
    /\ error = Null
    /\ activeTool = "shotIdea"
    /\ currentProject = [createNewProject EXCEPT !.script = <<"x">>]
    /\ isVisualsModalOpen = FALSE
    /\ scriptToAnalyze = <<"x">>
    /\ runs = [r \in RunIds |->
                 IF r = 1 THEN Issue([IdleRun EXCEPT !.pc = "stage1"], <<Req("stage1", 0)>>)
                 ELSE IdleRun]
    /\ nextRun = 2
    /\ isLoading = TRUE
    /\ shotError = Null
    /\ \E e \in MessageThrown :
          gens = [g \in GenIds |->
                    IF g = 1 THEN [IdleGen EXCEPT !.pc = "thrown", !.thrown = e,
                                                  !.calls = <<Req("shotList", 0)>>]
                    ELSE IdleGen]
    /\ nextGen = 2
    /\ db = <<>>
    /\ nextId = 1
    /\ exported = Null
    /\ reading = {}
    /\ loads = {}
    /\ RestInit

\* The Stage 1 request fails with the same e.
NextMessages ==
    \/ Stage1Response(1, Outcome("fail", gens[1].thrown))
    \/ AfterGenerate(1)

\* The two catch blocks applied to one thrown value.
SpecMessages == InitMessages /\ [][NextMessages]_vars

-----------------------------------------------------------------------------
\* Properties.

IsPrefix(s, q) == Len(s) <= Len(q) /\ SubSeq(q, 1, Len(s)) = s
Has(s, x) == \E i \in 1..Len(s) : s[i] = x
Last(s) == s[Len(s)]

StageKinds == {"stage1", "stage2", "stage3"}
ImageKinds == {"concept", "portrait", "poster", "style"}
StageCalls(run) == SelectSeq(run.calls, LAMBDA q : q.kind \in StageKinds)
ImageCalls(run) == SelectSeq(run.calls, LAMBDA q : q.kind \in ImageKinds)
Logged(run, stage, kind) == Has(run.stageLog, [req |-> Req(stage, 0), kind |-> kind])

\* C1: in every analysis run the Stage 1 request is issued before the Stage 2
\* request and that before the Stage 3 request, and a stage's request is issued
\* only if the preceding stage's request succeeded and its response parsed.
C1_StageOrder ==
    \A r \in RunIds :
        /\ IsPrefix(StageCalls(runs[r]),
                    <<Req("stage1", 0), Req("stage2", 0), Req("stage3", 0)>>)
        /\ Has(runs[r].calls, Req("stage2", 0)) => Logged(runs[r], "stage1", "ok")
        /\ Has(runs[r].calls, Req("stage3", 0)) => Logged(runs[r], "stage2", "ok")

\* A run whose Stage 2 response did not parse has ended without a Stage 3 request.
C1_Witness ==
    \E r \in RunIds :
        /\ Logged(runs[r], "stage2", "parse")
        /\ runs[r].pc = "failed"
        /\ StageCalls(runs[r]) = <<Req("stage1", 0), Req("stage2", 0)>>

\* C2: submitting an empty or blank script to handleAnalysis sets the
\* validation error and does nothing else: the modal is not opened, the status
\* and the text to analyse are unchanged, no run is started and no request is
\* issued; the modal is never open on a blank text, so no run starts on one.
C2_EmptyScriptIsLocalError ==
    /\ [][\A s \in Scripts :
            (Trim(s) = <<>> /\ handleAnalysis(s)) =>
                /\ error' = EmptyScriptMessage
                /\ isVisualsModalOpen' = isVisualsModalOpen
                /\ status' = status
                /\ scriptToAnalyze' = scriptToAnalyze
                /\ runs' = runs
                /\ nextRun' = nextRun]_vars
    /\ [](isVisualsModalOpen => Trim(scriptToAnalyze) # <<>>)

\* The validation error is shown, the modal closed and no request issued.
C2_Witness ==
    /\ error = EmptyScriptMessage
    /\ ~isVisualsModalOpen
    /\ status = "IDLE"
    /\ \A r \in RunIds : runs[r].calls = <<>>

\* C3: when the Stage 1 response of a run does not parse, the status becomes
\* ERROR, the current project's stage1Result is null and the run has issued no
\* Stage 2 request.
C3_ParseFailureLeavesNoStage1Result ==
    [][\A r \in RunIds :
          (/\ runs[r].pc = "stage1"
           /\ runs'[r].pc = "failed"
           /\ Last(runs'[r].stageLog).kind = "parse") =>
              /\ status' = "ERROR"
              /\ currentProject'.stage1Result = Null
              /\ ~Has(runs'[r].calls, Req("stage2", 0))]_vars

NoVisualFields(s2) ==
    /\ s2.concept_art_base64 = NoImage
    /\ \A i \in 1..Len(s2.character_profiles) :
          s2.character_profiles[i].image_base64 = NoImage
    /\ s2.comparable_titles_visuals = <<>>
    /\ s2.visual_style_images_base64 = <<>>

StoredStage2Of(r) ==
    /\ currentProject # Null
    /\ currentProject.stage2Result # Null
    /\ currentProject.stage2Result.run = r

\* C4: a run started with visuals declined is never in the visuals step and
\* issues no image request, none of its steps sets the status to
\* ANALYZING_STAGE_2_VISUALS, the step that issues its Stage 3 request stores
\* the Stage 2 response as it was parsed, and a stage2Result of that run in the
\* project has no visual field.
C4_DeclinedVisuals ==
    /\ [](\A r \in RunIds :
            (runs[r].pc # "idle" /\ ~runs[r].withVisuals) =>
                /\ runs[r].pc \notin {"visuals", "visuals_returned", "visuals_thrown"}
                /\ ImageCalls(runs[r]) = <<>>
                /\ StoredStage2Of(r) => NoVisualFields(currentProject.stage2Result))
    /\ [][\A r \in RunIds :
            (runs'[r] # runs[r] /\ ~runs'[r].withVisuals) =>
                /\ status' = "ANALYZING_STAGE_2_VISUALS" => status = status'
                /\ (runs[r].pc = "stage2" /\ runs'[r].pc # "failed") =>
                      /\ runs'[r].pc = "stage3"
                      /\ status' = "ANALYZING_STAGE_3"
                      /\ \E d \in AppDecks : currentProject'.stage2Result = Stage2Of(r, d)]_vars

\* Stage 3 of a run without visuals is under way on its own Stage 2 result.
C4_Witness ==
    \E r \in RunIds :
        /\ ~runs[r].withVisuals
        /\ runs[r].pc = "stage3"
        /\ StoredStage2Of(r)
        /\ status = "ANALYZING_STAGE_3"

\* The requests a batch on pitch deck d is to make, stated from the deck:
\* concept art, a portrait for each of the first two on-screen profiles, a
\* poster for each of the first three comparable titles, the style stills.
RECURSIVE FirstOnScreen(_, _, _)
FirstOnScreen(profiles, from, n) ==
    IF n = 0 \/ from > Len(profiles) THEN <<>>
    ELSE IF profiles[from].screen_presence = "on-screen"
         THEN <<from>> \o FirstOnScreen(profiles, from + 1, n - 1)
         ELSE FirstOnScreen(profiles, from + 1, n)
NumOnScreen(profiles) ==
    Cardinality({i \in 1..Len(profiles) : profiles[i].screen_presence = "on-screen"})
ExpectedPortraits(d) ==
    LET first == FirstOnScreen(d.character_profiles, 1, 2)
    IN  [k \in 1..Len(first) |-> Req("portrait", first[k])]
ExpectedRequests(d) ==
    <<Req("concept", 0)>>
    \o ExpectedPortraits(d)
    \o [k \in 1..Min(3, Len(d.comparable_titles)) |-> Req("poster", k)]
    \o <<Req("style", 0)>>

InBatch(run) == run.pc \in {"visuals", "visuals_returned", "visuals_thrown"}

\* C5: when the k-th image request of a batch fails with a rate-limit error,
\* the batch has thrown that error to its caller, the k-th request is the last
\* one the batch issued and answered, and nothing of the batch is in flight.
C5_RateLimitAbortsBatch ==
    \A r \in RunIds :
        InBatch(runs[r]) =>
            \A k \in 1..Len(runs[r].outcomes) :
                runs[r].outcomes[k].class = "rate" =>
                    /\ runs[r].pc = "visuals_thrown"
                    /\ runs[r].thrown # Null
                    /\ isRateLimitError(runs[r].thrown)
                    /\ k = Len(runs[r].outcomes)
                    /\ ImageCalls(runs[r]) = SubSeq(ExpectedRequests(runs[r].result2), 1, k)
                    /\ runs[r].outstanding = {}

\* The second request of a batch of at least four failed with a rate-limit error.
C5_Witness ==
    \E r \in RunIds :
        /\ runs[r].pc = "visuals_thrown"
        /\ Len(runs[r].outcomes) = 2
        /\ runs[r].outcomes[2].class = "rate"
        /\ Len(ExpectedRequests(runs[r].result2)) >= 4

AssetPresent(visuals, tag) ==
    CASE tag.kind = "concept" -> visuals.concept_art_base64 = ImageOf(tag)
      [] tag.kind = "portrait" ->
           \E j \in 1..Len(visuals.character_portraits) :
               visuals.character_portraits[j].image_base64 = ImageOf(tag)
      [] tag.kind = "poster" ->
           \E j \in 1..Len(visuals.comparable_titles_visuals) :
               visuals.comparable_titles_visuals[j].image_base64 = ImageOf(tag)
      [] tag.kind = "style" -> visuals.visual_style_images_base64 # <<>>

NumAssets(visuals) ==
    (IF visuals.concept_art_base64 = NoImage THEN 0 ELSE 1)
    + Len(visuals.character_portraits)
    + Len(visuals.comparable_titles_visuals)
    + (IF visuals.visual_style_images_base64 = <<>> THEN 0 ELSE 1)

\* C6: when the k-th image request of a batch fails with an error that is not
\* a rate-limit error, its asset is absent from the result and the batch goes
\* on: the next request is issued in the same step, or the batch returns if
\* the k-th was the last. A batch in which no request failed with a rate-limit
\* error issues every request and returns exactly the assets that succeeded.
C6_GenericFailureTolerated ==
    \A r \in RunIds :
        InBatch(runs[r]) =>
            LET run == runs[r]
                plan == ExpectedRequests(run.result2)
                n == Len(run.outcomes)
            IN  /\ \A k \in 1..n :
                      run.outcomes[k].class = "generic" =>
                          /\ ~AssetPresent(run.visuals, run.outcomes[k].req)
                          /\ k < Len(plan) => Len(ImageCalls(run)) >= k + 1
                          /\ k = Len(plan) => run.pc = "visuals_returned"
                /\ (\A k \in 1..n : run.outcomes[k].class # "rate") =>
                      /\ run.pc # "visuals_thrown"
                      /\ n = Len(plan) => run.pc = "visuals_returned"
                /\ run.pc = "visuals_returned" =>
                      /\ run.thrown = Null
                      /\ ImageCalls(run) = plan
                      /\ [k \in 1..n |-> run.outcomes[k].req] = plan
                      /\ \A k \in 1..n :
                            AssetPresent(run.visuals, plan[k]) <=> run.outcomes[k].class = "ok"
                      /\ NumAssets(run.visuals) =
                            Cardinality({k \in 1..n : run.outcomes[k].class = "ok"})

\* The second request of a batch of at least four failed with another error,
\* the later ones succeeded and the batch returned.
C6_Witness ==
    \E r \in RunIds :
        /\ runs[r].pc = "visuals_returned"
        /\ Len(runs[r].outcomes) >= 4
        /\ runs[r].outcomes[2].class = "generic"
        /\ \A k \in 3..Len(runs[r].outcomes) : runs[r].outcomes[k].class = "ok"

\* C7: a batch has at most one image request in flight at any time, and the
\* requests it has issued are an initial part of: concept art, the portraits in
\* profile order, the posters in title order, the style stills.
C7_StrictlySequential ==
    \A r \in RunIds :
        InBatch(runs[r]) =>
            /\ Cardinality(runs[r].outstanding) <= 1
            /\ IsPrefix(ImageCalls(runs[r]), ExpectedRequests(runs[r].result2))
            /\ Len(ImageCalls(runs[r])) = Len(runs[r].outcomes) + Cardinality(runs[r].outstanding)

\* A batch with two portraits and three posters has issued its seven requests.
C7_Witness ==
    \E r \in RunIds :
        /\ runs[r].pc = "visuals_returned"
        /\ Len(ImageCalls(runs[r])) = 7
        /\ ImageCalls(runs[r])[7] = Req("style", 0)

PortraitCalls(run) == SelectSeq(run.calls, LAMBDA q : q.kind = "portrait")
PastPortraits(run) ==
    \/ run.pc = "visuals_returned"
    \/ \E i \in 1..Len(run.calls) : run.calls[i].kind \in {"poster", "style"}

\* C8: the portrait requests of a batch are for on-screen profiles only, in
\* profile order, starting with the first on-screen profile; once the batch is
\* past its portrait loop there are exactly min(2, number of on-screen
\* profiles) of them.
C8_PortraitRequests ==
    \A r \in RunIds :
        InBatch(runs[r]) =>
            LET ps == runs[r].result2.character_profiles
                pc == PortraitCalls(runs[r])
            IN  /\ \A k \in 1..Len(pc) : ps[pc[k].idx].screen_presence = "on-screen"
                /\ IsPrefix(pc, ExpectedPortraits(runs[r].result2))
                /\ PastPortraits(runs[r]) =>
                      /\ Len(pc) = Min(2, NumOnScreen(ps))
                      /\ pc = ExpectedPortraits(runs[r].result2)

\* A deck with three on-screen profiles got two portraits.
C8_Witness ==
    \E r \in RunIds :
        /\ runs[r].pc = "visuals_returned"
        /\ NumOnScreen(runs[r].result2.character_profiles) = 3
        /\ Len(PortraitCalls(runs[r])) = 2

ShotCalls(gen) == SelectSeq(gen.calls, LAMBDA q : q.kind = "shot")
NumShots(gen) == Len(gen.answers)
Settled == {"ok", "empty", "generic"}

\* C9: no image request is issued before the shot list is parsed; from the
\* step that parses a list of K shots on, exactly the K image requests of shots
\* 1..K have been issued, whatever has been answered; a call in which no
\* request failed with a rate-limit error returns once all K are answered, and
\* the returned list has K entries in the original order, a shot whose request
\* succeeded carrying its own image and any other shot an empty image.
C9_ShotFanOut ==
    \A g \in GenIds :
        LET gen == gens[g]
            K == NumShots(gen)
        IN  /\ gen.pc \in {"idle", "text"} => ShotCalls(gen) = <<>>
            /\ gen.pc \notin {"idle", "text"} =>
                  ShotCalls(gen) = [i \in 1..K |-> Req("shot", i)]
            /\ gen.pc = "images" =>
                  /\ \E i \in 1..K : gen.answers[i] = "pending"
                  /\ \A i \in 1..K : gen.answers[i] # "rate"
            /\ gen.pc \in {"thrown", "failed"} =>
                  (K = 0 \/ \E i \in 1..K : gen.answers[i] = "rate")
            /\ gen.pc \in {"returned", "delivered"} =>
                  /\ Len(gen.shots) = K
                  /\ \A i \in 1..K :
                        /\ gen.answers[i] \in Settled
                        /\ gen.shots[i].shot_number = i
                        /\ gen.shots[i].image_base64 =
                              IF gen.answers[i] = "ok" THEN ImageOf(Req("shot", i))
                              ELSE NoImage

\* Of the shots of a list the last failed with another error and the others
\* succeeded; the list was returned.
C9_Witness ==
    \E g \in GenIds :
        /\ gens[g].pc \in {"returned", "delivered"}
        /\ NumShots(gens[g]) >= 2
        /\ gens[g].answers[NumShots(gens[g])] = "generic"
        /\ \A i \in 1..(NumShots(gens[g]) - 1) : gens[g].answers[i] = "ok"
        /\ Len(gens[g].shots) = NumShots(gens[g])

\* C10: when a shot's image request of a call has failed with a rate-limit
\* error, the call has thrown to its caller, returns no shot list, and none of
\* its image requests is still in flight.
C10_RateLimitAbortsInFlight ==
    \A g \in GenIds :
        (\E i \in 1..NumShots(gens[g]) : gens[g].answers[i] = "rate") =>
            /\ gens[g].pc \in {"thrown", "failed"}
            /\ gens[g].outstanding = {}

\* The part of C10 that does not concern the requests in flight.
C10_RateLimitPropagates ==
    \A g \in GenIds :
        (\E i \in 1..NumShots(gens[g]) : gens[g].answers[i] = "rate") =>
            /\ gens[g].pc \in {"thrown", "failed"}
            /\ gens[g].thrown # Null
            /\ isRateLimitError(gens[g].thrown)

Running(run) == run.pc \notin {"idle", "failed", "complete"}

\* C11: the step in which a stage of a run fails sets the status to ERROR and
\* records a user-facing message, and leaves the current project as it was:
\* the Stage 1 and Stage 2 results stored before the failure are still there.
C11_FailureKeepsResults ==
    [][\A r \in RunIds :
          (Running(runs[r]) /\ runs'[r].pc = "failed") =>
              /\ status' = "ERROR"
              /\ error' # Null
              /\ error' \in {ErrorMessage(e) : e \in TextThrown \cup ImageThrown}
              /\ currentProject' = currentProject]_vars

\* Stage 3 of a run failed; its Stage 1 and Stage 2 results are in the project.
C11_Witness ==
    \E r \in RunIds :
        /\ runs[r].pc = "failed"
        /\ Logged(runs[r], "stage3", "fail")
        /\ status = "ERROR"
        /\ error # Null
        /\ currentProject.stage1Result = Stage1Of(r)
        /\ StoredStage2Of(r)

StageResults(p) ==
    IF p = Null THEN Null
    ELSE <<p.stage1Result, p.stage2Result, p.stage3Result>>

\* Run r is not the run of the current project: a later run has replaced the
\* project, or a handler that replaces the project and sets the status to IDLE
\* has run since the last step of r (the steps of a run never set IDLE).
Superseded(r) ==
    /\ Running(runs[r])
    /\ (r < nextRun - 1 \/ status = "IDLE")

\* C12: a step of an analysis run that is no longer the run of the current
\* project (a later run, or a new project, has replaced the project since)
\* does not change the stage results of the current project.
C12_LateResultsAreDeadWrites ==
    [][\A r \in RunIds :
          (Superseded(r) /\ runs'[r] # runs[r]) =>
              StageResults(currentProject') = StageResults(currentProject)]_vars

Terminal(run) == run.pc \in {"failed", "complete"}

\* C13: a step that starts a run (executeAnalysis on non-empty text) replaces
\* the current project by one that holds the submitted script, no stage
\* result and no id, clears the error, sets ANALYZING_STAGE_1 and issues the
\* Stage 1 request as the first request of the new run, whatever the status
\* and the project were; and a run that has failed or completed is never
\* touched again.
C13_FreshRun ==
    [][/\ nextRun' # nextRun =>
           /\ nextRun' = nextRun + 1
           /\ Trim(scriptToAnalyze) # <<>>
           /\ currentProject'.script = scriptToAnalyze
           /\ StageResults(currentProject') = <<Null, Null, Null>>
           /\ currentProject'.id = Undefined
           /\ error' = Null
           /\ status' = "ANALYZING_STAGE_1"
           /\ runs[nextRun] = IdleRun
           /\ runs'[nextRun].pc = "stage1"
           /\ runs'[nextRun].calls = <<Req("stage1", 0)>>
           /\ \A r \in RunIds \ {nextRun} : runs'[r] = runs[r]
       /\ \A r \in RunIds : Terminal(runs[r]) => runs'[r] = runs[r]]_vars

\* A second run has started after the first one failed past Stage 1.
C13_Witness ==
    /\ runs[1].pc = "failed"
    /\ Logged(runs[1], "stage1", "ok")
    /\ runs[2].pc = "stage1"
    /\ runs[2].calls = <<Req("stage1", 0)>>
    /\ status = "ANALYZING_STAGE_1"
    /\ error = Null
    /\ StageResults(currentProject) = <<Null, Null, Null>>

\* C14: once the Stage 3 response of a run has parsed, no step of that run
\* takes it to "failed": its next step completes it, with status COMPLETE and
\* its Stage 3 result stored in the current project.
C14_ParsedStage3Completes ==
    [][\A r \in RunIds :
          (Logged(runs[r], "stage3", "ok") /\ runs'[r] # runs[r]) =>
              /\ runs'[r].pc = "complete"
              /\ status' = "COMPLETE"
              /\ currentProject'.stage3Result = Stage3Of(r)]_vars

AllGeneric(run) ==
    /\ run.outcomes # <<>>
    /\ \A k \in 1..Len(run.outcomes) : run.outcomes[k].class = "generic"

\* A run with visuals whose Stage 3 response has parsed and whose Stage 2
\* result, as stored in the project, carries no visual: its batch returned
\* nothing.
Unillustrated(r) ==
    /\ runs[r].withVisuals
    /\ ImageCalls(runs[r]) # <<>>
    /\ Logged(runs[r], "stage3", "ok")
    /\ StoredStage2Of(r)
    /\ NoVisualFields(currentProject.stage2Result)

\* C15: a batch whose image requests all fail with errors that are not
\* rate-limit errors returns, with an empty result and nothing thrown; the
\* step that resumes the run stores a Stage 2 result without visual fields,
\* sets ANALYZING_STAGE_3 and issues the Stage 3 request; and once Stage 3 has
\* parsed, the next step of the run completes it with status COMPLETE.
C15_AllFailedBatchStillCompletes ==
    [][\A r \in RunIds :
          /\ (runs[r].pc = "visuals" /\ runs'[r].pc # "visuals" /\ AllGeneric(runs'[r])) =>
                /\ runs'[r].pc = "visuals_returned"
                /\ runs'[r].visuals = EmptyVisuals
                /\ runs'[r].thrown = Null
          /\ (runs[r].pc = "visuals_returned" /\ AllGeneric(runs[r])
                /\ runs'[r] # runs[r]) =>
                /\ runs'[r].pc = "stage3"
                /\ Last(runs'[r].calls) = Req("stage3", 0)
                /\ status' = "ANALYZING_STAGE_3"
                /\ error' = error
                /\ currentProject'.stage2Result.run = r
                /\ NoVisualFields(currentProject'.stage2Result)
          /\ (Unillustrated(r) /\ runs'[r] # runs[r]) =>
                /\ runs'[r].pc = "complete"
                /\ status' = "COMPLETE"]_vars

\* The files whose reading ends in this step.
Read == reading \ reading'
Accepted(f) ==
    /\ f.json
    /\ f.value # Null
    /\ f.value.name # Undefined /\ f.value.name.kind = "string"
    /\ f.value.script # Undefined /\ f.value.script.kind = "string"

\* Script, stage results and tool configuration of a project.
Content(p) ==
    <<p.script, p.stage1Result, p.stage2Result, p.stage3Result,
      p.scriptGeneratorIdea, p.shotIdeaStudioConfig>>

C18_MalformedImportRejected ==
    [][\A f \in Read : ~Accepted(f) =>
          /\ error' # Null
          /\ error' = ImportErrorMessage(ImportThrown(f))
          /\ db' = db
          /\ nextId' = nextId
          /\ loads' = loads
          /\ currentProject' = currentProject
          /\ status' = status]_vars

\* A file was rejected while a loaded, complete project is current.
C18_Witness ==
    /\ error = ImportErrorMessage(InvalidFormat)
    /\ status = "COMPLETE"
    /\ currentProject # Null
    /\ currentProject.id = Key(1)
    /\ DOMAIN db = {1}
    /\ reading = {}

\* C19: whenever the result view is presented, the three stage results of
\* the current project are all there.
C19_CompleteViewHasAllResults ==
    ShowsAnalysisResult =>
        /\ currentProject.stage1Result \notin {Null, Undefined}
        /\ currentProject.stage2Result \notin {Null, Undefined}
        /\ currentProject.stage3Result \notin {Null, Undefined}

\* The result view is presented for a project loaded from the store.
C19_Witness ==
    /\ ShowsAnalysisResult
    /\ currentProject.id = Key(1)
    /\ currentProject.stage3Result = Stage3Of(0)

QuotaMessage == Msg("API quota exceeded.", {})
HighDemandMessage == Msg("high demand", {})
\* The message the mapping gives to a failure whose text holds the marks m.
MappedMessage(m) ==
    IF "429" \in m \/ "RESOURCE_EXHAUSTED" \in m THEN QuotaMessage
    ELSE IF "503" \in m \/ "UNAVAILABLE" \in m \/ "overloaded" \in m THEN HighDemandMessage
    ELSE Msg("raw", m)

\* C20 as stated: for every thrown value the message set by the analysis run
\* and the one set by the shot generator are the mapped message: quota for a
\* rate-limit failure, else high demand for an unavailable service, else the
\* raw message.
C20_SameMessageMapping ==
    LET e == gens[1].thrown IN
    /\ runs[1].pc = "failed" => error = MappedMessage(e.marks)
    /\ gens[1].pc = "failed" => shotError = MappedMessage(e.marks)

\* C20, amended: that holds for a thrown value that is an Error; for a thrown
\* value that is not an Error each of the two sets its own fixed
\* unknown-error message.
C20_ErrorMessageMapping ==
    LET e == gens[1].thrown IN
    /\ runs[1].pc = "failed" =>
          error = IF e.isError THEN MappedMessage(e.marks)
                  ELSE Msg("An unknown error occurred during analysis.", {})
    /\ gens[1].pc = "failed" =>
          shotError = IF e.isError THEN MappedMessage(e.marks)
                      ELSE Msg("An unknown error occurred during shot generation.", {})

\* Both catch blocks have run on an error that is a rate-limit failure and an
\* unavailable-service failure at once: both show the quota message.
C20_Witness ==
    /\ runs[1].pc = "failed"
    /\ gens[1].pc = "failed"
    /\ gens[1].thrown = Err({"429", "503"})
    /\ error = QuotaMessage
    /\ shotError = QuotaMessage
    /\ status = "ERROR"
    /\ ~isLoading

Occurrences(s, x) == Len(SelectSeq(s, LAMBDA q : q = x))

\* C21: a run issues each of its Stage 1, Stage 2 and Stage 3 requests at most
\* once; the step in which a run fails issues no request, leaves none
\* outstanding and sets status ERROR with the message of the failure; and a
\* failed run issues nothing afterwards.
C21_NoAutomaticRetry ==
    [][\A r \in RunIds :
          /\ \A k \in StageKinds : Occurrences(runs'[r].calls, Req(k, 0)) <= 1
          /\ (Running(runs[r]) /\ runs'[r].pc = "failed") =>
                /\ runs'[r].calls = runs[r].calls
                /\ runs'[r].outstanding = {}
                /\ status' = "ERROR"
                /\ error' \in {ErrorMessage(e) : e \in TextThrown \cup ImageThrown}
          /\ runs[r].pc = "failed" => runs'[r] = runs[r]]_vars

\* The Stage 2 request of a run failed with a 503: the run is over with the
\* retry-later message and its Stage 2 request was issued once.
C21_Witness ==
    \E r \in RunIds :
        /\ runs[r].pc = "failed"
        /\ Logged(runs[r], "stage2", "fail")
        /\ Occurrences(runs[r].calls, Req("stage2", 0)) = 1
        /\ status = "ERROR"
        /\ error = HighDemandMessage

\* The positions of the returned portraits that carry the name.
ReturnedFor(visuals, name) ==
    {k \in 1..Len(visuals.character_portraits) :
        visuals.character_portraits[k].name = name}
Least(S) == CHOOSE k \in S : \A j \in S : k <= j

\* The profiles of `after` are those of `before`, each with the first
\* returned portrait of its name when there is one and unchanged otherwise.
PortraitsMerged(before, visuals, after) ==
    /\ Len(after.character_profiles) = Len(before.character_profiles)
    /\ \A i \in 1..Len(before.character_profiles) :
          LET p == before.character_profiles[i]
              q == after.character_profiles[i]
              hits == ReturnedFor(visuals, p.name)
          IN  /\ q.image_base64 # NoImage <=> hits # {}
              /\ hits = {} => q = p
              /\ hits # {} =>
                    q = [p EXCEPT !.image_base64 =
                            visuals.character_portraits[Least(hits)].image_base64]

\* The step that resumes a run after its batch has returned merges the
\* portraits by name and goes on to Stage 3.
MergeStep(r) ==
    (runs[r].pc = "visuals_returned" /\ runs'[r] # runs[r]) =>
        /\ PortraitsMerged(runs[r].result2, runs[r].visuals, currentProject'.stage2Result)
        /\ runs'[r].pc = "stage3"
        /\ status' = "ANALYZING_STAGE_3"
        /\ Last(runs'[r].calls) = Req("stage3", 0)

\* C22 as stated: the merge is by name, and whatever the image requests
\* answer, the batch returns and the run goes on to Stage 3.
C22_AssetsNeverBlock ==
    [][\A r \in RunIds :
          /\ MergeStep(r)
          /\ runs[r].pc = "visuals" => runs'[r].pc \in {"visuals", "visuals_returned"}]_vars

\* C22, amended: the merge is by name; an image request that gives no image
\* or fails with an error that is not a rate-limit error leaves the batch
\* running or returned; the batch throws only on a rate-limit failure, and
\* then the run ends in ERROR without a Stage 3 request.
C22_MergeByName ==
    [][\A r \in RunIds :
          /\ MergeStep(r)
          /\ runs[r].pc = "visuals" =>
                \/ runs'[r].pc \in {"visuals", "visuals_returned"}
                \/ /\ runs'[r].pc = "visuals_thrown"
                   /\ Last(runs'[r].outcomes).class = "rate"
          /\ (runs[r].pc = "visuals_thrown" /\ runs'[r] # runs[r]) =>
                /\ runs'[r].pc = "failed"
                /\ status' = "ERROR"
                /\ ~Has(runs'[r].calls, Req("stage3", 0))]_vars

\* Two on-screen profiles after an off-screen one that shares the name of the
\* second: the request for the first portrait gave no image, the second succeeded,
\* and the run is in Stage 3 with that portrait on both profiles of its name.
C22_Witness ==
    /\ runs[1].pc = "stage3"
    /\ status = "ANALYZING_STAGE_3"
    /\ StoredStage2Of(1)
    /\ Len(currentProject.stage2Result.character_profiles) = 3
    /\ currentProject.stage2Result.character_profiles[1] =
          [Profile("B", "off-screen") EXCEPT !.image_base64 = ImageOf(Req("portrait", 3))]
    /\ currentProject.stage2Result.character_profiles[2] = Profile("A", "on-screen")
    /\ currentProject.stage2Result.character_profiles[3] =
          [Profile("B", "on-screen") EXCEPT !.image_base64 = ImageOf(Req("portrait", 3))]

\* C23: in every state the stage results of the current project respect the
\* order of the pipeline: a Stage 2 result only with a Stage 1 result, and a
\* Stage 3 result only with a Stage 2 result.
C23_PipelineOrder ==
    currentProject # Null =>
        /\ Truthy(currentProject.stage2Result) => Truthy(currentProject.stage1Result)
        /\ Truthy(currentProject.stage3Result) => Truthy(currentProject.stage2Result)

Analyzing == status \in {"ANALYZING_STAGE_1", "ANALYZING_STAGE_2",
                         "ANALYZING_STAGE_2_VISUALS", "ANALYZING_STAGE_3"}

\* C24: when every request is eventually answered, every run that is under
\* way eventually completes or fails, and a status that is one of the
\* ANALYZING_* values eventually is COMPLETE or ERROR.
C24_RunsTerminate ==
    /\ \A r \in RunIds : Running(runs[r]) ~> Terminal(runs[r])
    /\ Analyzing ~> status \in {"COMPLETE", "ERROR"}

\* A run with visuals has completed.
C24_Witness ==
    /\ \E r \in RunIds :
          runs[r].pc = "complete" /\ runs[r].withVisuals /\ status = "COMPLETE"

\* The shots and the context are those that one call has returned.
FromOneCall(shots, context) ==
    \E g \in GenIds :
        /\ gens[g].pc = "delivered"
        /\ shots = Shots(gens[g].shots)
        /\ context = ContextOf(g)

\* C25: the shot list of the current project is stored with the context
\* that the same call of generateShotIdeasAndImages returned, a storyboard
\* request holds the shots and the context of one call, and the step that
\* makes the request takes both unchanged from the project.
C25_ContextOfSameCall ==
    [][currentProject' # Null =>
          /\ Truthy(currentProject'.shotIdeasList) =>
                FromOneCall(currentProject.shotIdeasList, currentProject.shotIdeasListContext)'
          /\ Truthy(currentProject'.storyboardRequestFromShots) =>
                FromOneCall(currentProject.storyboardRequestFromShots,
                            currentProject.storyboardRequestContext)'
          /\ currentProject'.storyboardRequestFromShots # currentProject.storyboardRequestFromShots =>
                /\ currentProject'.storyboardRequestFromShots = currentProject.shotIdeasList
                /\ currentProject'.storyboardRequestContext = currentProject.shotIdeasListContext]_vars

\* Two generations overlapped and both were delivered; the first one,
\* made before the studio was left, is the one sent to the storyboard.
C25_Witness ==
    /\ gens[1].pc = "delivered"
    /\ gens[2].pc = "delivered"
    /\ ~gens[1].mounted
    /\ gens[1].shots # gens[2].shots
    /\ currentProject.storyboardRequestFromShots = Shots(gens[1].shots)
    /\ currentProject.storyboardRequestContext = ContextOf(1)
    /\ activeTool = "storyboard"

InLoop(v) == v.pc \in {"sleeping", "polling"}
Ended(v) == v.pc \in {"returned", "thrown"}

\* The polling loop in one step of the call.
LoopStep ==
    /\ (InLoop(video) /\ ~InLoop(video')) =>
          /\ video.pc = "polling"
          /\ video'.done \/ video'.pollFailed
    /\ (video.pc = "polling" /\ ~video'.done /\ ~video'.pollFailed) =>
          /\ video'.pc = "sleeping"
          /\ video'.delay = PollInterval
    /\ (video.pc = "sleeping" /\ video' # video) => video'.pc = "polling"

\* C26: once generateVideos has returned an operation that is not done, the
\* call waits PollInterval before every poll and polls again as long as the
\* operation is not done, however many polls it has made; it leaves the loop
\* only in the step in which a poll reports done or fails; so a call that has
\* ended found the operation done or a poll failed, and a call that has
\* found one of the two does end.
C26_PollsUntilDoneOrFailure ==
    /\ [][LoopStep]_vars
    /\ []((video.started /\ Ended(video)) => (video.done \/ video.pollFailed))
    /\ (video.done \/ video.pollFailed) ~> Ended(video)

\* The call has returned after as many polls as the model counts.
C26_Witness ==
    /\ video.pc = "returned"
    /\ video.polls = MaxPolls
    /\ video.done
    /\ ~video.pollFailed

\* C27: at most one analysis run is under way in any state.
C27_AtMostOneRun ==
    Cardinality({r \in RunIds : Running(runs[r])}) <= 1

\* The project of the imported file that a record or project comes from.
Original(p) == CHOOSE q \in {CompleteProject, Stage3OnlyProject} : q.name = p.name

\* C28: every stored record has the stage results it was stored with, and so
\* has the current project when it is a loaded one, whatever the steps of a
\* run started before the load deliver.
C28_StoredResultsKept ==
    /\ \A n \in DOMAIN db : StageResults(db[n]) = StageResults(Original(db[n]))
    /\ (currentProject # Null /\ currentProject.id # Undefined) =>
          StageResults(currentProject) = StageResults(Original(currentProject))

\* A stored record holds a stage result of a run.
C28_RecordOverwritten ==
    \E n \in DOMAIN db, r \in RunIds :
        /\ StageResults(db[n]) # StageResults(Original(db[n]))
        /\ db[n].stage2Result = Stage2Of(r, FileDeck)

\* C29: the store holds no record under an id whose handleDeleteProject has
\* completed.
C29_DeletedStaysDeleted ==
    \A n \in deleted : n \notin DOMAIN db

\* C30: a call of generateStoryboardFromShots never throws; when every
\* request has been answered it has returned one image per shot, in the order
\* of the shots: the image of the shot's request when that gave one, and the
\* empty image when it gave none or failed, a rate-limit failure included;
\* and it does not return before.
C30_StoryboardNeverFails ==
    /\ board.pc # "thrown"
    /\ board.pc = "returned" <=> (board.pc # "idle" /\ board.outstanding = {})
    /\ board.pc = "returned" =>
          /\ Len(board.images) = Len(board.shots)
          /\ \A i \in 1..Len(board.shots) :
                board.images[i] = IF board.answers[i].kind = "ok"
                                  THEN ImageOf(Req("panel", i))
                                  ELSE NoImage

\* The request of the first of three shots hit the rate limit, the second
\* gave an image, the third failed otherwise: three images have been returned.
C30_Witness ==
    /\ board.pc = "returned"
    /\ Len(board.shots) = 3
    /\ board.answers[1] = Outcome("fail", Err({"429"}))
    /\ board.answers[2] = Ok
    /\ board.answers[3] = Outcome("fail", Err({}))
    /\ board.images = <<NoImage, ImageOf(Req("panel", 2)), NoImage>>

====
